---- MODULE Spec2Model ----
(***************************************************************************)
(* A model of the Simplistic-Tetris game engine: the piece catalog, the    *)
(* board, the collision resolver, scoring and levelling, the game modes    *)
(* and the GameEngine state machine that ties them together.               *)
(*                                                                         *)
(* Units.  score is kept in half points (the soft-drop bonus is 0.5 per    *)
(* cell), so a source score of s is the model value 2*s.  elapsedTime is   *)
(* kept in thirds of a millisecond (TICKS_PER_MS per ms), so that the      *)
(* 1/60 s the engine subtracts in checkTimeLimit is the whole number 50.   *)
(***************************************************************************)
EXTENDS Integers, Sequences, FiniteSets, TLC

(***************************************************************************)
(* constants/config.ts                                                     *)
(***************************************************************************)
BOARD_ROWS == 20
BOARD_COLS == 10
SCORE_BASE == 40
LINES_PER_LEVEL == 4
MAX_LEVEL == 25

VACANT_COLOR == "black"

TETROMINO_COLORS ==
  [I |-> "#00f0f0", J |-> "#f0a000", L |-> "#0000f0", O |-> "#f0f000",
   S |-> "#00f000", T |-> "#a000f0", Z |-> "#f00000"]

LEVEL_SPEEDS ==
  <<750, 700, 650, 600, 550, 500, 450, 400, 350, 300, 250, 200, 180,
    165, 150, 140, 130, 120, 115, 110, 105, 100, 100, 100, 100, 100>>

\* SCORE_MULTIPLIERS doubled (1, 2.5, 5, 8), to stay in the integers.
SCORE_MULTIPLIERS_X2 == <<2, 5, 10, 16>>

\* GAME_MODE_CONFIGS[mode].timeLimit in seconds; 0 stands for undefined.
GAME_MODE_CONFIGS == [CLASSIC |-> [timeLimit |-> 0], ULTRA |-> [timeLimit |-> 120]]

TIME_WARNINGS == <<30, 10, 5>>

SPAWN_POSITION == [x |-> 3, y |-> -2]

\* elapsedTime ticks per millisecond, and per second.
TICKS_PER_MS == 3
TICKS_PER_S == 1000 * TICKS_PER_MS

(***************************************************************************)
(* core/Tetromino.ts: the piece catalog                                    *)
(***************************************************************************)
I_SHAPE ==
  << << <<0,0,0,0>>, <<1,1,1,1>>, <<0,0,0,0>>, <<0,0,0,0>> >>,
     << <<0,0,1,0>>, <<0,0,1,0>>, <<0,0,1,0>>, <<0,0,1,0>> >>,
     << <<0,0,0,0>>, <<0,0,0,0>>, <<1,1,1,1>>, <<0,0,0,0>> >>,
     << <<0,1,0,0>>, <<0,1,0,0>>, <<0,1,0,0>>, <<0,1,0,0>> >> >>

J_SHAPE ==
  << << <<1,0,0>>, <<1,1,1>>, <<0,0,0>> >>,
     << <<0,1,1>>, <<0,1,0>>, <<0,1,0>> >>,
     << <<0,0,0>>, <<1,1,1>>, <<0,0,1>> >>,
     << <<0,1,0>>, <<0,1,0>>, <<1,1,0>> >> >>

L_SHAPE ==
  << << <<0,0,1>>, <<1,1,1>>, <<0,0,0>> >>,
     << <<0,1,0>>, <<0,1,0>>, <<0,1,1>> >>,
     << <<0,0,0>>, <<1,1,1>>, <<1,0,0>> >>,
     << <<1,1,0>>, <<0,1,0>>, <<0,1,0>> >> >>

O_SHAPE ==
  << << <<0,0,0,0>>, <<0,1,1,0>>, <<0,1,1,0>>, <<0,0,0,0>> >> >>

S_SHAPE ==
  << << <<0,1,1>>, <<1,1,0>>, <<0,0,0>> >>,
     << <<0,1,0>>, <<0,1,1>>, <<0,0,1>> >>,
     << <<0,0,0>>, <<0,1,1>>, <<1,1,0>> >>,
     << <<1,0,0>>, <<1,1,0>>, <<0,1,0>> >> >>

T_SHAPE ==
  << << <<0,1,0>>, <<1,1,1>>, <<0,0,0>> >>,
     << <<0,1,0>>, <<0,1,1>>, <<0,1,0>> >>,
     << <<0,0,0>>, <<1,1,1>>, <<0,1,0>> >>,
     << <<0,1,0>>, <<1,1,0>>, <<0,1,0>> >> >>

Z_SHAPE ==
  << << <<1,1,0>>, <<0,1,1>>, <<0,0,0>> >>,
     << <<0,0,1>>, <<0,1,1>>, <<0,1,0>> >>,
     << <<0,0,0>>, <<1,1,0>>, <<0,1,1>> >>,
     << <<0,1,0>>, <<1,1,0>>, <<1,0,0>> >> >>

\* TETROMINO_SHAPES[type]: the rotation states (index r+1 holds rotation r)
\* and the colour of a piece type.
TETROMINO_SHAPES ==
  [I |-> [shape |-> I_SHAPE, color |-> TETROMINO_COLORS.I],
   J |-> [shape |-> J_SHAPE, color |-> TETROMINO_COLORS.J],
   L |-> [shape |-> L_SHAPE, color |-> TETROMINO_COLORS.L],
   O |-> [shape |-> O_SHAPE, color |-> TETROMINO_COLORS.O],
   S |-> [shape |-> S_SHAPE, color |-> TETROMINO_COLORS.S],
   T |-> [shape |-> T_SHAPE, color |-> TETROMINO_COLORS.T],
   Z |-> [shape |-> Z_SHAPE, color |-> TETROMINO_COLORS.Z]]

ALL_TETROMINO_TYPES == <<"I", "J", "L", "O", "S", "T", "Z">>

\* The null reference (holdPiece before the first hold).
NULL == [type |-> "null"]

\* createTetromino(type) at the default position.
pieceOf(type, tetrominoShape) ==
  [type     |-> type,
   color    |-> tetrominoShape.color,
   shape    |-> tetrominoShape.shape[1],
   rotation |-> 0,
   position |-> SPAWN_POSITION]

createTetromino(type) == pieceOf(type, TETROMINO_SHAPES[type])

\* rotateTetromino: the next rotation state of the piece's type.
rotatedTo(tetromino, shapes, newRotation) ==
  [tetromino EXCEPT !.rotation = newRotation, !.shape = shapes[newRotation + 1]]

rotatedIn(tetromino, shapes) ==
  rotatedTo(tetromino, shapes, (tetromino.rotation + 1) % Len(shapes))

\* rotateTetromino changed to shift the piece one column to the right.
rotateTetrominoShifting(tetromino) ==
  [rotatedIn(tetromino, TETROMINO_SHAPES[tetromino.type].shape)
     EXCEPT !.position.x = @ + 1]

rotateTetromino(tetromino) ==
  rotatedIn(tetromino, TETROMINO_SHAPES[tetromino.type].shape)

\* moveTetromino: the piece shifted by (dx, dy).
moveTetromino(tetromino, dx, dy) ==
  [tetromino EXCEPT !.position = [x |-> tetromino.position.x + dx,
                                  y |-> tetromino.position.y + dy]]

\* The (row, col) pairs of an n x n matrix in row-major order, 0-based.
MatrixIndex(n) == [k \in 1..(n * n) |-> <<(k - 1) \div n, (k - 1) % n>>]

\* The absolute positions of the matrix entries ones, for a piece at position.
cellsAt(position, ones) ==
  [k \in 1..Len(ones) |-> [x |-> position.x + ones[k][2],
                           y |-> position.y + ones[k][1]]]

\* getTetrominoOccupiedCells: the absolute positions of the 1 entries of the
\* piece's shape matrix, in row-major scan order.
getTetrominoOccupiedCells(tetromino) ==
  cellsAt(tetromino.position,
          SelectSeq(MatrixIndex(Len(tetromino.shape)),
                    LAMBDA p : tetromino.shape[p[1] + 1][p[2] + 1] = 1))

(***************************************************************************)
(* core/Board.ts.  A board is the sequence of its rows, top row first; row *)
(* r (0-based) is element r+1, and cell (x, y) is board[y+1][x+1].         *)
(***************************************************************************)
EmptyLine == [c \in 1..BOARD_COLS |-> VACANT_COLOR]

createBoard == [r \in 1..BOARD_ROWS |-> EmptyLine]

isValidPosition(position) ==
  /\ position.x >= 0 /\ position.x < BOARD_COLS
  /\ position.y >= 0 /\ position.y < BOARD_ROWS

isCellVacant(board, position) ==
  IF position.y < 0 THEN TRUE
  ELSE IF ~isValidPosition(position) THEN FALSE
  ELSE IF position.y + 1 > Len(board) THEN FALSE
  ELSE board[position.y + 1][position.x + 1] = VACANT_COLOR

\* The loop of lockPiece: the colour written into every in-bounds cell.
RECURSIVE lockCells(_, _, _, _)
lockCells(board, cells, color, k) ==
  IF k > Len(cells) THEN board
  ELSE IF isValidPosition(cells[k]) /\ cells[k].y + 1 <= Len(board)
  THEN lockCells([board EXCEPT ![cells[k].y + 1][cells[k].x + 1] = color],
                 cells, color, k + 1)
  ELSE lockCells(board, cells, color, k + 1)

\* lockPiece changed to leave out the first occupied cell.
lockPieceFromSecondCell(board, tetromino) ==
  lockCells(board, getTetrominoOccupiedCells(tetromino), tetromino.color, 2)

lockPiece(board, tetromino) ==
  lockCells(board, getTetrominoOccupiedCells(tetromino), tetromino.color, 1)

\* isPieceAboveBoard changed to report no piece as above the board.
neverAboveBoard(tetromino) == FALSE

\* The loop of isPieceAboveBoard.
anyAbove(cells) == \E k \in DOMAIN cells : cells[k].y < 0

isPieceAboveBoard(tetromino) == anyAbove(getTetrominoOccupiedCells(tetromino))

\* A row is complete iff none of its cells is vacant.
isCompleteRow(boardRow) == \A c \in 1..BOARD_COLS : boardRow[c] # VACANT_COLOR

\* findCompleteLines: the complete rows' 0-based indices, ascending.
findCompleteLines(board) ==
  SelectSeq([r \in 1..BOARD_ROWS |-> r - 1],
            LAMBDA r : r + 1 <= Len(board) /\ isCompleteRow(board[r + 1]))

\* The sequence s without its element at position m.
without(s, m) == SubSeq(s, 1, m - 1) \o SubSeq(s, m + 1, Len(s))

\* The position of a largest element of the non-empty sequence s.
maxAt(s) == CHOOSE i \in 1..Len(s) : \A j \in 1..Len(s) : s[i] >= s[j]

\* [...lineIndices].sort((a, b) => b - a): the indices in descending order.
RECURSIVE sortDescending(_)
sortDescending(s) ==
  IF Len(s) = 0 THEN <<>>
  ELSE <<s[maxAt(s)]>> \o sortDescending(without(s, maxAt(s)))

\* Array.prototype.splice(index, 1): the element at 0-based index removed
\* (nothing removed when index is past the end).
splice1(arr, index) ==
  IF index + 1 > Len(arr) THEN arr ELSE without(arr, index + 1)

\* The loop of clearLines: for each index, in the given order, remove the
\* row at that index and unshift an empty row at the top.
RECURSIVE clearLoop(_, _, _)
clearLoop(newBoard, sortedLines, k) ==
  IF k > Len(sortedLines) THEN newBoard
  ELSE clearLoop(<<EmptyLine>> \o splice1(newBoard, sortedLines[k]),
                 sortedLines, k + 1)

\* clearLines changed to remove the rows without adding empty rows at the top.
clearLinesWithoutRefill(board, lineIndices) ==
  IF Len(lineIndices) = 0 THEN board
  ELSE SubSeq(clearLoop(board, sortDescending(lineIndices), 1),
              Len(lineIndices) + 1, Len(board))

clearLines(board, lineIndices) ==
  IF Len(lineIndices) = 0 THEN board
  ELSE clearLoop(board, sortDescending(lineIndices), 1)

\* clearCompleteLines, given the complete lines found.
clearFound(board, completeLines) ==
  IF Len(completeLines) = 0
  THEN [board |-> board, linesCleared |-> 0]
  ELSE [board |-> clearLines(board, completeLines),
        linesCleared |-> Len(completeLines)]

clearCompleteLines(board) == clearFound(board, findCompleteLines(board))

(***************************************************************************)
(* core/CollisionDetector.ts                                               *)
(***************************************************************************)
\* The loop of checkCollision changed to skip the cells above the board
\* before the wall test.
RECURSIVE collisionScanSkippingFirst(_, _, _, _, _)
collisionScanSkippingFirst(board, cells, offsetX, offsetY, k) ==
  IF k > Len(cells) THEN "none"
  ELSE IF cells[k].y + offsetY < 0
  THEN collisionScanSkippingFirst(board, cells, offsetX, offsetY, k + 1)
  ELSE IF cells[k].x + offsetX < 0 \/ cells[k].x + offsetX >= BOARD_COLS THEN "wall"
  ELSE IF cells[k].y + offsetY >= BOARD_ROWS THEN "floor"
  ELSE IF ~isCellVacant(board, [x |-> cells[k].x + offsetX, y |-> cells[k].y + offsetY])
  THEN "piece"
  ELSE collisionScanSkippingFirst(board, cells, offsetX, offsetY, k + 1)

\* The loop of checkCollision: the first violation in scan order, "none"
\* when no cell shifted by (offsetX, offsetY) violates a rule.
RECURSIVE collisionScan(_, _, _, _, _)
collisionScan(board, cells, offsetX, offsetY, k) ==
  IF k > Len(cells) THEN "none"
  ELSE IF cells[k].x + offsetX < 0 \/ cells[k].x + offsetX >= BOARD_COLS THEN "wall"
  ELSE IF cells[k].y + offsetY >= BOARD_ROWS THEN "floor"
  ELSE IF cells[k].y + offsetY < 0
  THEN collisionScan(board, cells, offsetX, offsetY, k + 1)
  ELSE IF ~isCellVacant(board, [x |-> cells[k].x + offsetX, y |-> cells[k].y + offsetY])
  THEN "piece"
  ELSE collisionScan(board, cells, offsetX, offsetY, k + 1)

\* A CollisionResult.
collisionResult(reason) == [hasCollision |-> reason # "none", reason |-> reason]

checkCollision(board, tetromino, offsetX, offsetY) ==
  collisionResult(collisionScan(board, getTetrominoOccupiedCells(tetromino),
                                offsetX, offsetY, 1))

\* canMoveDown changed to test the piece where it is.
canMoveDownInPlace(board, tetromino) ==
  ~checkCollision(board, tetromino, 0, 0).hasCollision

canMoveDown(board, tetromino) == ~checkCollision(board, tetromino, 0, 1).hasCollision

\* The two for loops of calculateWallKick: the first of sign*1, sign*2,
\* sign*3 at which the rotated piece fits, else 0.
RECURSIVE kickLoop(_, _, _, _)
kickLoop(board, rotatedTetromino, sign, kick) ==
  IF kick > 3 THEN 0
  ELSE IF ~checkCollision(board, rotatedTetromino, sign * kick, 0).hasCollision
  THEN sign * kick
  ELSE kickLoop(board, rotatedTetromino, sign, kick + 1)

\* calculateWallKick changed to try the kicks to the right on either side.
wallKickToTheRight(board, tetromino, rotatedTetromino) ==
  IF ~checkCollision(board, rotatedTetromino, 0, 0).hasCollision THEN 0
  ELSE kickLoop(board, rotatedTetromino, 1, 1)

\* calculateWallKick: 0 when the rotated piece fits; else the kicks are
\* tried to the left when the piece is right of the centre, else to the right.
calculateWallKick(board, tetromino, rotatedTetromino) ==
  IF ~checkCollision(board, rotatedTetromino, 0, 0).hasCollision THEN 0
  ELSE kickLoop(board, rotatedTetromino,
                IF 2 * tetromino.position.x > BOARD_COLS THEN -1 ELSE 1, 1)

\* The result of canRotate for the wall kick found: valid is FALSE for null.
kickResult(board, rotatedTetromino, kick) ==
  IF ~checkCollision(board, rotatedTetromino, kick, 0).hasCollision
  THEN [valid |-> TRUE, kick |-> kick]
  ELSE [valid |-> FALSE, kick |-> 0]

canRotate(board, tetromino, rotatedTetromino) ==
  kickResult(board, rotatedTetromino,
             calculateWallKick(board, tetromino, rotatedTetromino))

\* The loop of findGhostPosition: ghostY is raised while the piece one row
\* further down does not collide.
RECURSIVE ghostLoop(_, _, _)
ghostLoop(board, tetromino, ghostY) ==
  IF ~checkCollision(board, tetromino, 0, ghostY - tetromino.position.y + 1).hasCollision
  THEN ghostLoop(board, tetromino, ghostY + 1)
  ELSE ghostY

\* findGhostPosition changed to return the first row that collides.
findGhostOneRowLow(board, tetromino) ==
  [x |-> tetromino.position.x,
   y |-> ghostLoop(board, tetromino, tetromino.position.y) + 1]

findGhostPosition(board, tetromino) ==
  [x |-> tetromino.position.x, y |-> ghostLoop(board, tetromino, tetromino.position.y)]

calculateHardDropDistance(board, tetromino) ==
  findGhostPosition(board, tetromino).y - tetromino.position.y

(***************************************************************************)
(* core/ScoringSystem.ts                                                   *)
(***************************************************************************)
\* The multiplier lookup changed to the fallback 1 for every count.
multiplierFlat(linesCleared) == 2

\* SCORE_MULTIPLIERS[linesCleared] || 1, doubled.
multiplierX2(linesCleared) ==
  IF linesCleared \in DOMAIN SCORE_MULTIPLIERS_X2
  THEN SCORE_MULTIPLIERS_X2[linesCleared] ELSE 2

\* calculateLineScore in points: floor(SCORE_BASE * multiplier + level * SCORE_BASE).
calculateLineScore(linesCleared, currentLevel) ==
  IF linesCleared = 0 THEN 0
  ELSE (SCORE_BASE * multiplierX2(linesCleared) + 2 * currentLevel * SCORE_BASE) \div 2

\* calculateSoftDropBonus, in half points: cellsDropped * 0.5 points.
calculateSoftDropBonus(cellsDropped) == cellsDropped

\* calculateHardDropBonus changed to award 1 point per cell.
hardDropBonusOnePoint(cellsDropped) == cellsDropped * 2

\* calculateHardDropBonus, in half points: cellsDropped * 2 points.
calculateHardDropBonus(cellsDropped) == cellsDropped * 4

Min(a, b) == IF a < b THEN a ELSE b
Max(a, b) == IF a > b THEN a ELSE b

\* calculateLevel changed to raise the level with every line.
levelPerLine(totalLines) == Min(totalLines, MAX_LEVEL)

calculateLevel(totalLines) == Min(totalLines \div LINES_PER_LEVEL, MAX_LEVEL)

\* shouldLevelUp changed to report a level up whenever lines were cleared.
shouldLevelUpOnClear(previousLines, newLines) == newLines > previousLines

shouldLevelUp(previousLines, newLines) ==
  calculateLevel(newLines) > calculateLevel(previousLines)

getDropSpeed(level) == LEVEL_SPEEDS[Min(Max(level, 0), MAX_LEVEL) + 1]

\* The ScoreInfo changed to hold the line score alone as the new score.
scoreInfoReplacing(currentScore, currentLines, linesCleared, lineScore) ==
  [points       |-> lineScore,
   linesCleared |-> currentLines + linesCleared,
   level        |-> calculateLevel(currentLines + linesCleared),
   bonus        |-> lineScore]

\* The ScoreInfo of a clear worth lineScore half points.
scoreInfo(currentScore, currentLines, linesCleared, lineScore) ==
  [points       |-> currentScore + lineScore,
   linesCleared |-> currentLines + linesCleared,
   level        |-> calculateLevel(currentLines + linesCleared),
   bonus        |-> lineScore]

\* updateScoreAfterLineClear; points and bonus in half points.
updateScoreAfterLineClear(currentScore, currentLines, currentLevel, linesCleared) ==
  IF linesCleared = 0
  THEN [points |-> currentScore, linesCleared |-> currentLines,
        level |-> currentLevel, bonus |-> 0]
  ELSE scoreInfo(currentScore, currentLines, linesCleared,
                 2 * calculateLineScore(linesCleared, currentLevel))

updateScoreAfterSoftDrop(currentScore, cellsDropped) ==
  currentScore + calculateSoftDropBonus(cellsDropped)

updateScoreAfterHardDrop(currentScore, cellsDropped) ==
  currentScore + calculateHardDropBonus(cellsDropped)

(***************************************************************************)
(* core/GameModes.ts; times in ticks                                       *)
(***************************************************************************)
timeLimitTicks(mode) == GAME_MODE_CONFIGS[mode].timeLimit * TICKS_PER_S

\* getRemainingTime; -1 stands for Infinity.
getRemainingTime(mode, elapsed) ==
  IF timeLimitTicks(mode) = 0 THEN -1
  ELSE Max(0, timeLimitTicks(mode) - elapsed)

isTimeUp(mode, elapsed) ==
  IF timeLimitTicks(mode) = 0 THEN FALSE
  ELSE elapsed >= timeLimitTicks(mode)

shouldTriggerTimeWarning(mode, previous, current, warningSeconds) ==
  IF timeLimitTicks(mode) = 0 THEN FALSE
  ELSE /\ timeLimitTicks(mode) - previous > warningSeconds * TICKS_PER_S
       /\ timeLimitTicks(mode) - current <= warningSeconds * TICKS_PER_S

(***************************************************************************)
(* core/GameEngine.ts.  An engine value e is the record of the GameEngine  *)
(* fields (state.* flattened; state.isPaused is statePaused), plus what    *)
(* the last call emitted (events) and returned (ret: "true", "false" or    *)
(* "void"), and the history field heldSinceSpawn (a hold has succeeded     *)
(* since the current piece was spawned).  Each method is an operator from  *)
(* the engine before the call to the engine after it; the pieces           *)
(* Math.random draws and the value Date.now() returns are parameters.      *)
(* A method's steps are chained operators, each taking the engine the      *)
(* step before it produced.                                                *)
(***************************************************************************)
createInitialState(mode, drawnCurrent, drawnNext) ==
  [board        |-> createBoard,
   currentPiece |-> createTetromino(drawnCurrent),
   nextPiece    |-> createTetromino(drawnNext),
   holdPiece    |-> NULL,
   canHold      |-> TRUE,
   score        |-> 0,
   lines        |-> 0,
   level        |-> 0,
   isGameOver   |-> FALSE,
   statePaused  |-> FALSE,
   gameMode     |-> mode]

\* The private fields as the constructor and restart set them.
privateFields(now) ==
  [lastDropTime |-> now, elapsedTime |-> 0, isPaused |-> FALSE, combo |-> 0]

\* new GameEngine(mode), constructed at wall-clock time now.
construct(mode, drawnCurrent, drawnNext, now) ==
  createInitialState(mode, drawnCurrent, drawnNext) @@ privateFields(now)
  @@ [events |-> <<>>, ret |-> "void", heldSinceSpawn |-> FALSE]

\* The engine at the start of a call: nothing emitted, nothing returned yet.
enter(e) == [e EXCEPT !.events = <<>>, !.ret = "void"]

emit(e, type, data) ==
  [e EXCEPT !.events = Append(@, [type |-> type, data |-> data])]

NoData == [none |-> TRUE]

returning(e, value) == [e EXCEPT !.ret = value]

gameOver(e) ==
  emit([e EXCEPT !.isGameOver = TRUE], "GAME_OVER",
       [score |-> e.score, lines |-> e.lines, level |-> e.level,
        duration |-> e.elapsedTime])

\* The guard changed to leave out the pause flag.
blockedUnlessPaused(e) == e.isGameOver \/ e.currentPiece = NULL

\* The guard changed to leave out the game-over flag.
blockedUnlessGameOver(e) == e.isPaused \/ e.currentPiece = NULL

\* The guard every action method starts with.
blocked(e) == e.isGameOver \/ e.isPaused \/ e.currentPiece = NULL

\* The events after the score update with SCORE_UPDATED emitted first.
scoreEventsScoreFirst(e, previousLines, linesCleared, bonus) ==
  IF shouldLevelUp(previousLines, e.lines)
  THEN emit(emit(emit(e, "SCORE_UPDATED", [score |-> e.score]),
                 "LINE_CLEARED", [count |-> linesCleared, bonus |-> bonus]),
            "LEVEL_UP", [level |-> e.level])
  ELSE emit(emit(e, "SCORE_UPDATED", [score |-> e.score]),
            "LINE_CLEARED", [count |-> linesCleared, bonus |-> bonus])

\* lockCurrentPiece, lines 646-654: the events after the score update.
scoreEvents(e, previousLines, linesCleared, bonus) ==
  emit(IF shouldLevelUp(previousLines, e.lines)
       THEN emit(emit(e, "LINE_CLEARED", [count |-> linesCleared, bonus |-> bonus]),
                 "LEVEL_UP", [level |-> e.level])
       ELSE emit(e, "LINE_CLEARED", [count |-> linesCleared, bonus |-> bonus]),
       "SCORE_UPDATED", [score |-> e.score])

\* lockCurrentPiece, lines 642-654: the score update of a clearing lock.
applyScore(e, linesCleared, info) ==
  scoreEvents([e EXCEPT !.score = info.points,
                        !.lines = info.linesCleared,
                        !.level = info.level,
                        !.combo = @ + 1],
              e.lines, linesCleared, info.bonus)

\* lockCurrentPiece, lines 632-657.
lockScoring(e, linesCleared) ==
  IF linesCleared > 0
  THEN applyScore(e, linesCleared,
                  updateScoreAfterLineClear(e.score, e.lines, e.level, linesCleared))
  ELSE [e EXCEPT !.combo = 0]

\* lockCurrentPiece, lines 664-670: a colliding new piece ends the game.
checkSpawn(e) ==
  IF e.currentPiece # NULL /\ checkCollision(e.board, e.currentPiece, 0, 0).hasCollision
  THEN gameOver(e)
  ELSE e

\* The spawn changed to leave canHold as it is.
spawnNextKeepingCanHold(e, drawn) ==
  checkSpawn([e EXCEPT !.currentPiece = e.nextPiece,
                       !.nextPiece    = createTetromino(drawn)])

\* lockCurrentPiece, lines 659-671: the next piece becomes current and a
\* new next piece is drawn.
spawnNext(e, drawn) ==
  checkSpawn([e EXCEPT !.currentPiece = e.nextPiece,
                       !.nextPiece    = createTetromino(drawn),
                       !.canHold      = TRUE])

\* lockCurrentPiece, lines 629-657, given what clearCompleteLines returned.
applyCleared(e, cleared) ==
  lockScoring([e EXCEPT !.board = cleared.board], cleared.linesCleared)

\* lockCurrentPiece, lines 624-630: the piece locked, the lines cleared.
lockAndClear(e) ==
  applyCleared(emit([e EXCEPT !.board = lockPiece(e.board, e.currentPiece)],
                    "PIECE_LOCKED", NoData),
               clearCompleteLines(lockPiece(e.board, e.currentPiece)))

lockCurrentPiece(e, drawn) ==
  IF e.currentPiece = NULL THEN e
  ELSE IF isPieceAboveBoard(e.currentPiece) THEN gameOver(e)
  ELSE spawnNext(lockAndClear(e), drawn)

\* moveLeft / moveRight after the guard, movedPiece being the shifted piece.
tryMove(e, movedPiece, direction) ==
  IF ~checkCollision(e.board, movedPiece, 0, 0).hasCollision
  THEN returning(emit([e EXCEPT !.currentPiece = movedPiece],
                      "PIECE_MOVED", [direction |-> direction]), "true")
  ELSE returning(e, "false")

moveLeft(e) ==
  IF blocked(e) THEN returning(e, "false")
  ELSE tryMove(e, moveTetromino(e.currentPiece, -1, 0), "left")

\* moveRight changed to move without the collision check.
moveRightUnchecked(e) ==
  IF e.isGameOver \/ e.isPaused \/ e.currentPiece = NULL
  THEN [e EXCEPT !.ret = "false"]
  ELSE [e EXCEPT !.currentPiece = moveTetromino(e.currentPiece, 1, 0),
                 !.events = Append(@, [type |-> "PIECE_MOVED",
                                       data |-> [direction |-> "right"]]),
                 !.ret = "true"]

moveRight(e) ==
  IF blocked(e) THEN returning(e, "false")
  ELSE tryMove(e, moveTetromino(e.currentPiece, 1, 0), "right")

\* moveDown changed to leave the piece on its row.
moveDownStaying(e, drawn) ==
  IF blocked(e) THEN returning(e, "false")
  ELSE IF canMoveDown(e.board, e.currentPiece)
  THEN returning(emit([e EXCEPT !.score = updateScoreAfterSoftDrop(e.score, 1)],
                      "PIECE_MOVED", [direction |-> "down"]), "true")
  ELSE returning(lockCurrentPiece(e, drawn), "false")

moveDown(e, drawn) ==
  IF blocked(e) THEN returning(e, "false")
  ELSE IF canMoveDown(e.board, e.currentPiece)
  THEN returning(emit([e EXCEPT !.currentPiece = moveTetromino(e.currentPiece, 0, 1),
                                !.score = updateScoreAfterSoftDrop(e.score, 1)],
                      "PIECE_MOVED", [direction |-> "down"]), "true")
  ELSE returning(lockCurrentPiece(e, drawn), "false")

\* The rotation applied without the kick offset.
applyKickInPlace(e, rotated, kick) ==
  IF kick.valid
  THEN [e EXCEPT !.currentPiece = rotated,
                 !.events = Append(@, [type |-> "PIECE_ROTATED", data |-> NoData]),
                 !.ret = "true"]
  ELSE [e EXCEPT !.ret = "false"]

\* rotate after canRotate: kick.valid is FALSE for null.
applyKick(e, rotated, kick) ==
  IF kick.valid
  THEN returning(emit([e EXCEPT !.currentPiece = moveTetromino(rotated, kick.kick, 0)],
                      "PIECE_ROTATED", NoData), "true")
  ELSE returning(e, "false")

\* rotate after the guard, rotated being the rotated piece.
tryRotate(e, rotated) ==
  applyKick(e, rotated, canRotate(e.board, e.currentPiece, rotated))

rotate(e) ==
  IF blocked(e) THEN returning(e, "false")
  ELSE tryRotate(e, rotateTetromino(e.currentPiece))

\* hardDrop after the guard, lines 574-581.
dropTo(e, distance, ghostPosition, drawn) ==
  lockCurrentPiece(
    [e EXCEPT !.currentPiece =
                 moveTetromino(e.currentPiece,
                               ghostPosition.x - e.currentPiece.position.x,
                               ghostPosition.y - e.currentPiece.position.y),
              !.score = updateScoreAfterHardDrop(e.score, distance)],
    drawn)

hardDrop(e, drawn) ==
  IF blocked(e) THEN e
  ELSE dropTo(e, calculateHardDropDistance(e.board, e.currentPiece),
              findGhostPosition(e.board, e.currentPiece), drawn)

\* hold changed to leave canHold as it is.
holdKeepingCanHold(e, drawn) ==
  IF e.isGameOver \/ e.isPaused \/ e.currentPiece = NULL \/ ~e.canHold
  THEN [e EXCEPT !.ret = "false"]
  ELSE IF e.holdPiece = NULL
  THEN [e EXCEPT !.holdPiece    = [createTetromino(drawn[1]) EXCEPT !.type = e.currentPiece.type],
                 !.currentPiece = e.nextPiece,
                 !.nextPiece    = createTetromino(drawn[2]),
                 !.ret          = "true"]
  ELSE [e EXCEPT !.currentPiece = [createTetromino(drawn[1]) EXCEPT !.type = e.holdPiece.type],
                 !.holdPiece    = [e.holdPiece EXCEPT !.type = e.currentPiece.type],
                 !.ret          = "true"]

\* hold changed to leave the held type as it is when swapping.
holdWithoutExchange(e, drawn) ==
  IF e.isGameOver \/ e.isPaused \/ e.currentPiece = NULL \/ ~e.canHold
  THEN [e EXCEPT !.ret = "false"]
  ELSE IF e.holdPiece = NULL
  THEN [e EXCEPT !.holdPiece    = [createTetromino(drawn[1]) EXCEPT !.type = e.currentPiece.type],
                 !.currentPiece = e.nextPiece,
                 !.nextPiece    = createTetromino(drawn[2]),
                 !.canHold      = FALSE,
                 !.ret          = "true"]
  ELSE [e EXCEPT !.currentPiece = [createTetromino(drawn[1]) EXCEPT !.type = e.holdPiece.type],
                 !.canHold      = FALSE,
                 !.ret          = "true"]

\* createRandomTetromino() with its type field overwritten: the shape and
\* the colour stay those of the drawn type.
retyped(drawn, type) == [createTetromino(drawn) EXCEPT !.type = type]

hold(e, drawn) ==
  IF blocked(e) \/ ~e.canHold THEN returning(e, "false")
  ELSE IF e.holdPiece = NULL
  THEN [e EXCEPT !.holdPiece    = retyped(drawn[1], e.currentPiece.type),
                 !.currentPiece = e.nextPiece,
                 !.nextPiece    = createTetromino(drawn[2]),
                 !.canHold      = FALSE,
                 !.ret          = "true"]
  ELSE [e EXCEPT !.currentPiece = retyped(drawn[1], e.holdPiece.type),
                 !.holdPiece    = [e.holdPiece EXCEPT !.type = e.currentPiece.type],
                 !.canHold      = FALSE,
                 !.ret          = "true"]

\* pause changed to pause after a game over as well.
pauseAfterGameOver(e) ==
  emit([e EXCEPT !.isPaused = TRUE, !.statePaused = TRUE], "GAME_PAUSED", NoData)

pause(e) ==
  IF e.isGameOver THEN e
  ELSE emit([e EXCEPT !.isPaused = TRUE, !.statePaused = TRUE], "GAME_PAUSED", NoData)

\* resume changed to go on after a game over, clearing the flag.
resumeAfterGameOver(e, now) ==
  [e EXCEPT !.isGameOver = FALSE, !.isPaused = FALSE, !.statePaused = FALSE,
            !.lastDropTime = now,
            !.events = Append(@, [type |-> "GAME_RESUMED", data |-> NoData])]

resume(e, now) ==
  IF e.isGameOver THEN e
  ELSE emit([e EXCEPT !.isPaused = FALSE, !.statePaused = FALSE,
                      !.lastDropTime = now],
            "GAME_RESUMED", NoData)

togglePause(e, now) == IF e.isPaused THEN resume(e, now) ELSE pause(e)

\* restart, given the new state and the new private fields.
resetTo(e, state, private) ==
  [f \in DOMAIN e |->
     IF f \in DOMAIN state THEN state[f]
     ELSE IF f \in DOMAIN private THEN private[f]
     ELSE e[f]]

\* restart changed to leave the elapsed time as it is.
restartKeepingElapsed(e, mode, drawnCurrent, drawnNext, now) ==
  resetTo(e,
          createInitialState(IF mode = "undefined" THEN e.gameMode ELSE mode,
                             drawnCurrent, drawnNext),
          [lastDropTime |-> now, isPaused |-> FALSE, combo |-> 0])

\* restart(mode): mode "undefined" keeps the previous mode.
restart(e, mode, drawnCurrent, drawnNext, now) ==
  resetTo(e,
          createInitialState(IF mode = "undefined" THEN e.gameMode ELSE mode,
                             drawnCurrent, drawnNext),
          privateFields(now))

\* The for loop of checkTimeLimit over TIME_WARNINGS.
RECURSIVE warningLoop(_, _, _)
warningLoop(e, previousElapsed, k) ==
  IF k > Len(TIME_WARNINGS) THEN e
  ELSE IF shouldTriggerTimeWarning(e.gameMode, previousElapsed, e.elapsedTime,
                                   TIME_WARNINGS[k])
  THEN warningLoop(emit(e, "TIME_WARNING", [secondsRemaining |-> TIME_WARNINGS[k]]),
                   previousElapsed, k + 1)
  ELSE warningLoop(e, previousElapsed, k + 1)

\* The time-up check changed to emit TIME_UP without ending the game.
checkTimeUpOnly(e) ==
  IF isTimeUp(e.gameMode, e.elapsedTime) THEN emit(e, "TIME_UP", NoData) ELSE e

\* checkTimeLimit, lines 463-467.
checkTimeUp(e) ==
  IF isTimeUp(e.gameMode, e.elapsedTime)
  THEN gameOver(emit(e, "TIME_UP", NoData))
  ELSE e

\* checkTimeLimit: previousElapsed is elapsedTime - 1/60 s.
checkTimeLimit(e) ==
  IF e.gameMode = "ULTRA"
  THEN checkTimeUp(warningLoop(e, e.elapsedTime - (TICKS_PER_S \div 60), 1))
  ELSE e

\* handleAutoDrop: the comparison is on the wall clock, not on the deltas.
handleAutoDrop(e, now, drawn) ==
  IF now - e.lastDropTime >= getDropSpeed(e.level)
  THEN [moveDown(e, drawn) EXCEPT !.lastDropTime = now, !.ret = "void"]
  ELSE e

\* update changed to run while the engine is paused.
updateWhilePaused(e, deltaTime, now, drawn) ==
  IF e.isGameOver THEN e
  ELSE handleAutoDrop(
         checkTimeLimit([e EXCEPT !.elapsedTime = @ + deltaTime * TICKS_PER_MS]),
         now, drawn)

\* update(deltaTime), deltaTime in milliseconds.
update(e, deltaTime, now, drawn) ==
  IF e.isGameOver \/ e.isPaused THEN e
  ELSE handleAutoDrop(
         checkTimeLimit([e EXCEPT !.elapsedTime = @ + deltaTime * TICKS_PER_MS]),
         now, drawn)

(***************************************************************************)
(* Calls.  A call names a public method and its inputs: deltaTime (ms),    *)
(* mode, the piece types Math.random draws during the call (drawn), and    *)
(* the wall-clock time Date.now() returns during it (now).                 *)
(***************************************************************************)
Call(op, deltaTime, mode, drawn, now) ==
  [op |-> op, deltaTime |-> deltaTime, mode |-> mode, drawn |-> drawn, now |-> now]

HasEvent(evs, type) == \E i \in DOMAIN evs : evs[i].type = type

\* The method a call names, applied to the engine.
dispatch(e, c) ==
  CASE c.op = "moveLeft"    -> moveLeft(e)
    [] c.op = "moveRight"   -> moveRight(e)
    [] c.op = "moveDown"    -> moveDown(e, c.drawn[1])
    [] c.op = "rotate"      -> rotate(e)
    [] c.op = "hardDrop"    -> hardDrop(e, c.drawn[1])
    [] c.op = "hold"        -> hold(e, c.drawn)
    [] c.op = "pause"       -> pause(e)
    [] c.op = "resume"      -> resume(e, c.now)
    [] c.op = "togglePause" -> togglePause(e, c.now)
    [] c.op = "restart"     -> restart(e, c.mode, c.drawn[1], c.drawn[2], c.now)
    [] c.op = "update"      -> update(e, c.deltaTime, c.now, c.drawn[1])

Invoke(e, c) == dispatch(enter(e), c)

\* A call, with the history field brought up to date: a spawn (by restart
\* or by the lock sequence) clears it, a successful hold sets it.
withHistory(e, c) ==
  [e EXCEPT !.heldSinceSpawn =
     IF c.op = "restart" \/ HasEvent(e.events, "PIECE_LOCKED") THEN FALSE
     ELSE IF c.op = "hold" /\ e.ret = "true" THEN TRUE
     ELSE @]

Do(e, c) == withHistory(Invoke(e, c), c)

\* The engine after a sequence of calls.
RECURSIVE Replay(_, _), replayRest(_, _)
Replay(e, cs) ==
  IF Len(cs) = 0 THEN e ELSE replayRest(Do(e, Head(cs)), Tail(cs))

\* (the test on e.ret makes TLC evaluate each call before the next)
replayRest(e, cs) ==
  IF e.ret \in {"true", "false", "void"} THEN Replay(e, cs) ELSE e

\* The engine after a sequence of calls made n times over.
RECURSIVE ReplayTimes(_, _, _), replayTimesRest(_, _, _)
ReplayTimes(e, cs, n) ==
  IF n = 0 THEN e ELSE replayTimesRest(Replay(e, cs), cs, n - 1)

replayTimesRest(e, cs, n) ==
  IF e.ret \in {"true", "false", "void"} THEN ReplayTimes(e, cs, n) ELSE e

(***************************************************************************)
(* GameEngine: event subscription.  A callback is a name; invoking it       *)
(* appends an entry to the log of the step.  Callbacks neither subscribe    *)
(* nor call the engine.                                                     *)
(***************************************************************************)
GameEventType ==
  {"PIECE_MOVED", "PIECE_ROTATED", "PIECE_LOCKED", "LINE_CLEARED", "LEVEL_UP",
   "GAME_OVER", "GAME_PAUSED", "GAME_RESUMED", "SCORE_UPDATED", "TIME_WARNING",
   "TIME_UP"}

\* new Map(): no type has listeners.
NoListeners == [type \in GameEventType |-> <<>>]

addEventListener(listeners, type, callback) ==
  [listeners EXCEPT ![type] = Append(@, callback)]

\* Array.prototype.indexOf, counted from 1; 0 when x is not in s.
indexOf(s, x) ==
  IF \E i \in DOMAIN s : s[i] = x
  THEN CHOOSE i \in DOMAIN s : s[i] = x /\ \A j \in 1..(i - 1) : s[j] # x
  ELSE 0

removeEventListener(listeners, type, callback) ==
  IF indexOf(listeners[type], callback) > 0
  THEN [listeners EXCEPT ![type] = without(@, indexOf(listeners[type], callback))]
  ELSE listeners

\* emit: listeners.forEach((callback) => callback(event)), for event k.
forEachListener(callbacks, type, k) ==
  [i \in DOMAIN callbacks |-> [callback |-> callbacks[i], type |-> type, event |-> k]]

\* The callbacks invoked by the emissions evs[k], evs[k + 1], ...
RECURSIVE deliveries(_, _, _)
deliveries(evs, listeners, k) ==
  IF k > Len(evs) THEN <<>>
  ELSE forEachListener(listeners[evs[k].type], evs[k].type, k)
       \o deliveries(evs, listeners, k + 1)

(***************************************************************************)
(* GameEngine: the values getState and getGhostPosition return.  getState  *)
(* copies the fields of this.state, so the snapshot holds the board and    *)
(* the piece objects of the engine themselves; getGhostPosition returns a  *)
(* new object.                                                             *)
(***************************************************************************)
NoSnapshot == [of |-> "none"]

\* getState(): { ...this.state }.  The snapshot shares the hold piece object
\* with the engine when there is one.
getState(e) ==
  [of |-> "getState",
   board |-> e.board, currentPiece |-> e.currentPiece,
   nextPiece |-> e.nextPiece, holdPiece |-> e.holdPiece,
   sharesHoldPiece |-> e.holdPiece # NULL]

getGhostPosition(e) ==
  [of |-> "getGhostPosition",
   piece |-> IF e.currentPiece = NULL THEN NULL
             ELSE moveTetromino(
                    e.currentPiece,
                    findGhostPosition(e.board, e.currentPiece).x - e.currentPiece.position.x,
                    findGhostPosition(e.board, e.currentPiece).y - e.currentPiece.position.y)]

\* The snapshot after a call of method op that leaves newHoldPiece in the
\* engine.  The board is replaced by lockPiece and clearLines, which write
\* to a clone, and current and next piece by new objects; restart replaces
\* this.state; hold writes the type of the hold piece object in place
\* (line 605), and the snapshot that shares the object shows it.
afterCall(snap, op, newHoldPiece) ==
  IF snap.of # "getState" THEN snap
  ELSE IF op = "restart" THEN [snap EXCEPT !.sharesHoldPiece = FALSE]
  ELSE IF snap.sharesHoldPiece THEN [snap EXCEPT !.holdPiece = newHoldPiece]
  ELSE snap

(***************************************************************************)
(* input/InputHandler.ts                                                   *)
(***************************************************************************)
DEFAULT_CONTROLS ==
  <<[action |-> "moveLeft",  keys |-> {"ArrowLeft", "q", "Q"}],
    [action |-> "moveRight", keys |-> {"ArrowRight", "d", "D"}],
    [action |-> "moveDown",  keys |-> {"ArrowDown"}],
    [action |-> "rotate",    keys |-> {"ArrowUp"}],
    [action |-> "hardDrop",  keys |-> {" "}],
    [action |-> "hold",      keys |-> {"Shift"}],
    [action |-> "pause",     keys |-> {"Escape", "p", "P"}],
    [action |-> "restart",   keys |-> {"Enter", "r", "R"}],
    [action |-> "quit",      keys |-> {"Tab"}]>>

InputAction == {DEFAULT_CONTROLS[i].action : i \in DOMAIN DEFAULT_CONTROLS}

\* INPUT_DEBOUNCE[action], ms; 0 for an action without an entry.
INPUT_DEBOUNCE(action) ==
  CASE action = "rotate" -> 150
    [] action = "hold"   -> 200
    [] action = "quit"   -> 300
    [] OTHER             -> 0

\* new InputHandler(): default controls, no callbacks, no key pressed, no
\* action executed yet, no repeat timer.
newInputHandler ==
  [controls        |-> DEFAULT_CONTROLS,
   actionCallbacks |-> {},
   pressedKeys     |-> {},
   lastActionTime  |-> [a \in InputAction |-> 0],
   repeatIntervals |-> {}]

\* getActionForKey: the first action whose keys include key, or "null".
getActionForKey(h, key) ==
  IF \E i \in DOMAIN h.controls : key \in h.controls[i].keys
  THEN h.controls[CHOOSE i \in DOMAIN h.controls :
                    /\ key \in h.controls[i].keys
                    /\ \A j \in 1..(i - 1) : key \notin h.controls[j].keys].action
  ELSE "null"

\* executeAction: whether the action is dropped by its debounce time.
debounced(h, action, time) ==
  /\ INPUT_DEBOUNCE(action) # 0
  /\ time - h.lastActionTime[action] < INPUT_DEBOUNCE(action)

\* executeAction: the handler afterwards.
executeAction(h, action, time) ==
  IF INPUT_DEBOUNCE(action) # 0 /\ ~debounced(h, action, time)
  THEN [h EXCEPT !.lastActionTime[action] = time]
  ELSE h

\* executeAction: the callbacks it invokes.
executeActionCalls(h, action, time) ==
  IF ~debounced(h, action, time) /\ action \in h.actionCallbacks
  THEN <<[callback |-> action]>>
  ELSE <<>>

\* The actions a held key repeats.
RepeatedActions == {"moveLeft", "moveRight", "moveDown"}

\* handleKeyDown: the handler afterwards.
handleKeyDown(h, key, time) ==
  IF key \in h.pressedKeys THEN h
  ELSE IF getActionForKey(h, key) = "null"
  THEN [h EXCEPT !.pressedKeys = @ \cup {key}]
  ELSE [executeAction(h, getActionForKey(h, key), time)
          EXCEPT !.pressedKeys = @ \cup {key},
                 !.repeatIntervals =
                    IF getActionForKey(h, key) \in RepeatedActions
                    THEN @ \cup {key} ELSE @]

\* handleKeyDown: the callbacks it invokes.
handleKeyDownCalls(h, key, time) ==
  IF key \in h.pressedKeys \/ getActionForKey(h, key) = "null" THEN <<>>
  ELSE executeActionCalls(h, getActionForKey(h, key), time)

handleKeyUp(h, key) ==
  [h EXCEPT !.pressedKeys = @ \ {key}, !.repeatIntervals = @ \ {key}]

\* The repeat timer of key fires: the action is executed again while the
\* key is pressed.
repeatFired(h, key, time) ==
  IF key \in h.pressedKeys
  THEN executeAction(h, getActionForKey(h, key), time)
  ELSE [h EXCEPT !.repeatIntervals = @ \ {key}]

repeatFiredCalls(h, key, time) ==
  IF key \in h.pressedKeys
  THEN executeActionCalls(h, getActionForKey(h, key), time)
  ELSE <<>>

on(h, action) == [h EXCEPT !.actionCallbacks = @ \cup {action}]

off(h, action) == [h EXCEPT !.actionCallbacks = @ \ {action}]

(***************************************************************************)
(* Bounds and input sets                                                   *)
(***************************************************************************)
\* Calls explored after the initial state.
MaxCalls == 2
\* The piece types Math.random draws.
DrawTypes == {"I", "O", "T"}
\* update's deltaTime, in ms.
Deltas == {16, 2000}
\* Wall-clock ms that pass before a frame's update.
ClockAdvances == {0, 750}
Modes == {"CLASSIC", "ULTRA"}

(***************************************************************************)
(* State                                                                   *)
(***************************************************************************)
VARIABLES
  board, currentPiece, nextPiece, holdPiece, canHold, score, lines, level,
  isGameOver, statePaused, gameMode,          \* GameEngine.state
  lastDropTime, elapsedTime, isPaused, combo, \* GameEngine private fields
  events,                                     \* events emitted by the last call
  ret,                                        \* what the last call returned
  heldSinceSpawn,                             \* history: a hold succeeded since the last spawn
  lastCall,                                   \* the last call: method, deltaTime, mode
  now,                                        \* the wall clock, ms
  calls,                                      \* calls made so far
  fnArgs, fnResult,                           \* a pure function's inputs and output
  eventListeners,                             \* GameEngine.eventListeners
  snapshot,                                   \* the value getState or getGhostPosition returned last
  inputHandler,                               \* the fields of the InputHandler
  activeElement,                              \* the element that has the keyboard focus
  invoked                                     \* the callbacks invoked by the last step, in order

engineVars ==
  <<board, currentPiece, nextPiece, holdPiece, canHold, score, lines, level,
    isGameOver, statePaused, gameMode, lastDropTime, elapsedTime, isPaused,
    combo, events, ret, heldSinceSpawn>>

clientVars == <<eventListeners, snapshot, inputHandler, activeElement, invoked>>

vars == <<engineVars, lastCall, now, calls, fnArgs, fnResult, clientVars>>

\* The engine as a value.
Engine ==
  [board |-> board, currentPiece |-> currentPiece, nextPiece |-> nextPiece,
   holdPiece |-> holdPiece, canHold |-> canHold, score |-> score,
   lines |-> lines, level |-> level, isGameOver |-> isGameOver,
   statePaused |-> statePaused, gameMode |-> gameMode,
   lastDropTime |-> lastDropTime, elapsedTime |-> elapsedTime,
   isPaused |-> isPaused, combo |-> combo, events |-> events, ret |-> ret,
   heldSinceSpawn |-> heldSinceSpawn]

SetEngine(e) ==
  /\ board' = e.board /\ currentPiece' = e.currentPiece
  /\ nextPiece' = e.nextPiece /\ holdPiece' = e.holdPiece
  /\ canHold' = e.canHold /\ score' = e.score /\ lines' = e.lines
  /\ level' = e.level /\ isGameOver' = e.isGameOver
  /\ statePaused' = e.statePaused /\ gameMode' = e.gameMode
  /\ lastDropTime' = e.lastDropTime /\ elapsedTime' = e.elapsedTime
  /\ isPaused' = e.isPaused /\ combo' = e.combo
  /\ events' = e.events /\ ret' = e.ret
  /\ heldSinceSpawn' = e.heldSinceSpawn

\* What lastCall keeps of a call.
Made(c) == [op |-> c.op, deltaTime |-> c.deltaTime, mode |-> c.mode]

\* One call of a public method on the engine.
Step(c) ==
  /\ calls < MaxCalls
  /\ SetEngine(Do(Engine, c))
  /\ lastCall' = Made(c)
  /\ now' = c.now
  /\ calls' = calls + 1
  /\ invoked' = deliveries(events', eventListeners, 1)
  /\ snapshot' = afterCall(snapshot, c.op, holdPiece')
  /\ UNCHANGED <<fnArgs, fnResult, eventListeners, inputHandler, activeElement>>

NoDraw == <<"I", "I">>

MoveLeft == Step(Call("moveLeft", 0, "undefined", NoDraw, now))

MoveRight == Step(Call("moveRight", 0, "undefined", NoDraw, now))

MoveDown == \E d \in DrawTypes : Step(Call("moveDown", 0, "undefined", <<d, d>>, now))

Rotate == Step(Call("rotate", 0, "undefined", NoDraw, now))

HardDrop == \E d \in DrawTypes : Step(Call("hardDrop", 0, "undefined", <<d, d>>, now))

Hold == \E d1, d2 \in DrawTypes : Step(Call("hold", 0, "undefined", <<d1, d2>>, now))

Pause == Step(Call("pause", 0, "undefined", NoDraw, now))

Resume == Step(Call("resume", 0, "undefined", NoDraw, now))

TogglePause == Step(Call("togglePause", 0, "undefined", NoDraw, now))

Restart ==
  \E m \in Modes \cup {"undefined"}, d1, d2 \in DrawTypes :
     Step(Call("restart", 0, m, <<d1, d2>>, now))

Update ==
  \E dt \in Deltas, adv \in ClockAdvances, d \in DrawTypes :
     Step(Call("update", dt, "undefined", <<d, d>>, now + adv))

Next ==
  \/ MoveLeft \/ MoveRight \/ MoveDown \/ Rotate \/ HardDrop \/ Hold
  \/ Pause \/ Resume \/ TogglePause \/ Restart \/ Update

(***************************************************************************)
(* Initial states: a newly constructed engine, and engines some way into   *)
(* a session, each given by the calls that lead to it from construction.   *)
(***************************************************************************)
C0(op) == Call(op, 0, "undefined", NoDraw, 0)
HD(d) == Call("hardDrop", 0, "undefined", <<d, d>>, 0)
UP(dt) == Call("update", dt, "undefined", NoDraw, 0)
Times(c, n) == [k \in 1..n |-> c]

\* Two I pieces side by side on the bottom row (columns 0..7) and an O piece
\* moved over columns 8..9: its drop completes one row.
OneRowPrefix ==
  Times(C0("moveLeft"), 3) \o <<HD("O")>> \o <<C0("moveRight"), HD("L")>>
  \o Times(C0("moveRight"), 4)

\* Four I pieces filling columns 0..7 of the two bottom rows, a J piece on
\* top of them, and an O piece moved over columns 8..9: its drop completes
\* the two bottom rows.
TwoRowPrefix ==
  Times(C0("moveLeft"), 3) \o <<HD("I")>> \o <<C0("moveRight"), HD("I")>>
  \o Times(C0("moveLeft"), 3) \o <<HD("J")>> \o <<C0("moveRight"), HD("O")>>
  \o Times(C0("moveLeft"), 3) \o <<HD("L")>>
  \o Times(C0("moveRight"), 4)

\* Nine O pieces stacked under the spawn position (rows 2..19).
StackPrefix(last, after) == Times(HD("O"), 7) \o <<HD(last), HD(after)>>

\* The stack with an I piece dropped across it (row 1): a new piece has no
\* room to move down.
FullStackPrefix == StackPrefix("I", "O") \o <<HD("I")>>

\* Ten O pieces stacked under the spawn position (rows 0..19), a T piece in
\* play and an O piece next.
ToppedStackPrefix == <<HD("O")>> \o StackPrefix("T", "O")

\* Two I pieces side by side on columns 0..7 of the lowest free row.
RowPrefix ==
  Times(C0("moveLeft"), 3) \o <<HD("I")>> \o <<C0("moveRight"), HD("I")>>

\* Four such rows, an upright I piece dropped in column 8, and an upright I
\* piece moved over column 9: its drop completes the four bottom rows.
FourRowPrefix ==
  RowPrefix \o RowPrefix \o RowPrefix \o RowPrefix
  \o <<C0("rotate")>> \o Times(C0("moveRight"), 3) \o <<HD("I")>>
  \o <<C0("rotate")>> \o Times(C0("moveRight"), 4)

\* The upright I piece lowered into the well of column 9, between the wall
\* and the filled columns: it can neither move sideways nor rotate.
WellPrefix == FourRowPrefix \o Times(C0("moveDown"), 16)

\* Elapsed milliseconds of the timed sessions under way.
SessionElapsed == {89000, 89984, 109000, 114984, 119000}

\* A first hold, and a first hold followed by a lock.
HeldPrefix == <<Call("hold", 0, "undefined", <<"T", "L">>, 0)>>
HeldLockedPrefix == HeldPrefix \o <<HD("T")>>

\* The O piece held in over the topped stack.
ToppedHeldPrefix == ToppedStackPrefix \o HeldPrefix

\* Five O pieces hard-dropped side by side: the last one completes the two
\* rows they fill.
OCycleOpening ==
  Times(C0("moveLeft"), 4) \o <<HD("O")>> \o Times(C0("moveLeft"), 2) \o <<HD("O")>>
  \o <<HD("O")>> \o Times(C0("moveRight"), 2)

\* (the fourth and fifth drops draw the pieces that follow the cycle)
OCycleDrawing(d) == OCycleOpening \o <<HD(d)>> \o Times(C0("moveRight"), 4)

OCycle == OCycleDrawing("O") \o <<HD("O")>>

\* The four-row well built at level 2, after two cycles and a third that
\* draws the I pieces.
LeveledFourRowPrefix == OCycleDrawing("I") \o <<HD("I")>> \o FourRowPrefix

\* An upright I piece dropped in column 8.
UprightPrefix == <<C0("rotate")>> \o Times(C0("moveRight"), 3) \o <<HD("I")>>

\* Played on nine rows filled but for column 9 (rows 11..19): three upright
\* I pieces dropped in column 8, an upright I piece dropped into column 9,
\* which completes rows 16..19, and a second upright I piece moved over
\* column 9.
NineRowPrefix ==
  UprightPrefix \o UprightPrefix \o UprightPrefix
  \o <<C0("rotate")>> \o Times(C0("moveRight"), 4) \o <<HD("I")>>
  \o <<C0("rotate")>> \o Times(C0("moveRight"), 4)

\* Cycles played before the last level, and before the lines beyond it.
RoundsBelowMaxLevel == 33
RoundsAtMaxLevel == 34

Start(mode, drawnCurrent, drawnNext, prefix) ==
  [mode |-> mode, current |-> drawnCurrent, next |-> drawnNext,
   cycle |-> <<>>, rounds |-> 0, prefix |-> prefix]

\* A game of O pieces: rounds cycles, then the prefix.
StartAfter(rounds, prefix) ==
  [mode |-> "CLASSIC", current |-> "O", next |-> "O",
   cycle |-> OCycle, rounds |-> rounds, prefix |-> prefix]

\* A game of I pieces: rounds rows filled but for column 9, then the prefix.
StartOnRows(rounds, prefix) ==
  [mode |-> "CLASSIC", current |-> "I", next |-> "I",
   cycle |-> RowPrefix, rounds |-> rounds, prefix |-> prefix]

Starts ==
  {Start("CLASSIC", "I", "O", <<>>), Start("ULTRA", "T", "I", <<>>)}
  \cup {Start("ULTRA", "I", "O", <<UP(dt)>>) : dt \in SessionElapsed}
  \cup {Start("CLASSIC", "I", "I", OneRowPrefix),
        Start("CLASSIC", "I", "I", TwoRowPrefix),
        Start("CLASSIC", "O", "O", StackPrefix("O", "O")),
        Start("CLASSIC", "O", "O", StackPrefix("O", "I")),
        Start("CLASSIC", "O", "O", FullStackPrefix),
        Start("CLASSIC", "I", "O", HeldPrefix),
        Start("CLASSIC", "I", "O", HeldLockedPrefix),
        Start("CLASSIC", "I", "O", <<C0("pause")>>),
        Start("CLASSIC", "O", "O", FullStackPrefix \o <<HD("O")>>),
        Start("CLASSIC", "I", "O", <<UP(119000)>>),
        Start("ULTRA", "I", "O", <<UP(119000), UP(2000)>>),
        Start("CLASSIC", "I", "I", FourRowPrefix),
        Start("CLASSIC", "I", "I", WellPrefix),
        StartAfter(2, LeveledFourRowPrefix),
        StartAfter(RoundsBelowMaxLevel, OCycleDrawing("O")),
        StartAfter(RoundsAtMaxLevel, OCycleDrawing("O")),
        StartOnRows(9, NineRowPrefix),
        Start("CLASSIC", "O", "O", ToppedStackPrefix),
        Start("CLASSIC", "O", "O", ToppedHeldPrefix)}

\* The engine a start leads to, and the last call made on it.
Session(s) ==
  [e    |-> Replay(ReplayTimes(construct(s.mode, s.current, s.next, 0),
                               s.cycle, s.rounds),
                   s.prefix),
   last |-> Made(IF Len(s.prefix) = 0 THEN C0("constructor")
                 ELSE s.prefix[Len(s.prefix)])]

Sessions == {Session(s) : s \in Starts}

InitFrom(s) ==
  /\ board = s.e.board /\ currentPiece = s.e.currentPiece
  /\ nextPiece = s.e.nextPiece /\ holdPiece = s.e.holdPiece
  /\ canHold = s.e.canHold /\ score = s.e.score /\ lines = s.e.lines
  /\ level = s.e.level /\ isGameOver = s.e.isGameOver
  /\ statePaused = s.e.statePaused /\ gameMode = s.e.gameMode
  /\ lastDropTime = s.e.lastDropTime /\ elapsedTime = s.e.elapsedTime
  /\ isPaused = s.e.isPaused /\ combo = s.e.combo
  /\ events = s.e.events /\ ret = s.e.ret
  /\ heldSinceSpawn = s.e.heldSinceSpawn
  /\ lastCall = s.last
  /\ eventListeners = NoListeners
  /\ snapshot = NoSnapshot
  /\ inputHandler = newInputHandler
  /\ activeElement = "body"
  /\ invoked = <<>>

NoArgs == [fn |-> "none"]

Init ==
  /\ \E s \in Sessions : InitFrom(s)
  /\ now = 0
  /\ calls = 0
  /\ fnArgs = NoArgs
  /\ fnResult = NoArgs

Spec == Init /\ [][Next]_vars

(***************************************************************************)
(* clearLines as a function of its arguments: the initial states draw a    *)
(* board and a sequence of row indices, and the one action applies it.     *)
(***************************************************************************)
\* Longest sequence of row indices drawn.
MaxIndices == 3
\* The rows the indices are drawn from.
IndexRows == {0, 9, 17, 18, 19}

\* A board all of whose rows differ: row r has its cell r mod BOARD_COLS
\* filled, and the rows of the lower half a second cell.
MarkedRow(r) ==
  [c \in 1..BOARD_COLS |->
     IF c - 1 = r % BOARD_COLS THEN TETROMINO_COLORS.I
     ELSE IF r >= BOARD_COLS /\ c - 1 = (r + 1) % BOARD_COLS THEN TETROMINO_COLORS.O
     ELSE VACANT_COLOR]

MarkedBoard == [r \in 1..BOARD_ROWS |-> MarkedRow(r - 1)]

\* The marked board with the named rows complete, as findCompleteLines
\* would report them.
CompletedAt(lineIndices) ==
  [r \in 1..BOARD_ROWS |->
     IF \E k \in DOMAIN lineIndices : lineIndices[k] = r - 1
     THEN [c \in 1..BOARD_COLS |-> TETROMINO_COLORS.T]
     ELSE MarkedRow(r - 1)]

\* The sequences of 1..MaxIndices pairwise different row indices.
IndexSeqs ==
  {s \in UNION {[1..n -> IndexRows] : n \in 1..MaxIndices} :
     \A i, j \in DOMAIN s : i # j => s[i] # s[j]}

InitClearLines ==
  /\ InitFrom(Session(Start("CLASSIC", "I", "O", <<>>)))
  /\ now = 0
  /\ calls = 0
  /\ \E s \in IndexSeqs, b \in {"marked", "completed"} :
        fnArgs = [fn |-> "clearLines",
                  board |-> IF b = "marked" THEN MarkedBoard ELSE CompletedAt(s),
                  lineIndices |-> s]
  /\ fnResult = NoArgs

ClearLines ==
  /\ fnArgs.fn = "clearLines"
  /\ fnResult = NoArgs
  /\ fnResult' = [fn |-> "clearLines",
                  board |-> clearLines(fnArgs.board, fnArgs.lineIndices)]
  /\ UNCHANGED <<engineVars, lastCall, now, calls, fnArgs, clientVars>>

NextClearLines == ClearLines

SpecClearLines == InitClearLines /\ [][NextClearLines]_vars

(***************************************************************************)
(* The collision resolver as functions of their arguments: the initial     *)
(* states draw a board and a piece, and each action applies one function.  *)
(***************************************************************************)
\* The boards drawn: the empty board, the board with the four bottom rows
\* filled but for the well in column 9, and the board with the stack of O
\* pieces under the spawn position.
ResolverBoards ==
  {createBoard,
   Session(Start("CLASSIC", "I", "I", WellPrefix)).e.board,
   Session(Start("CLASSIC", "O", "O", StackPrefix("O", "O"))).e.board}

\* The positions drawn for the piece's matrix origin.
PieceColumns == -2..9
PieceRows == {-2, 0, 1, 14, 15, 16, 17, 18}

\* Every type (by its index in ALL_TETROMINO_TYPES) in every rotation.
Orientations ==
  {o \in (DOMAIN ALL_TETROMINO_TYPES) \X (0..3) :
     o[2] < Len(TETROMINO_SHAPES[ALL_TETROMINO_TYPES[o[1]]].shape)}

\* The piece of orientation o at position (px, py).
PieceAt(o, px, py) ==
  [rotatedTo(createTetromino(ALL_TETROMINO_TYPES[o[1]]),
             TETROMINO_SHAPES[ALL_TETROMINO_TYPES[o[1]]].shape, o[2])
     EXCEPT !.position = [x |-> px, y |-> py]]

\* Every type in every rotation at every drawn position.
ResolverPieces ==
  {PieceAt(o, px, py) : o \in Orientations, px \in PieceColumns, py \in PieceRows}

\* The offsets checkCollision is called with.
Offsets == {<<0, 0>>, <<-1, 0>>, <<1, 0>>, <<0, 1>>}

InitResolver ==
  /\ InitFrom(Session(Start("CLASSIC", "I", "O", <<>>)))
  /\ now = 0
  /\ calls = 0
  /\ \E b \in ResolverBoards, p \in ResolverPieces :
        fnArgs = [fn |-> "resolver", board |-> b, tetromino |-> p]
  /\ fnResult = NoArgs

\* A function of the resolver is applied once to the arguments drawn.
Applied(result) ==
  /\ fnArgs.fn = "resolver"
  /\ fnResult = NoArgs
  /\ fnResult' = result
  /\ UNCHANGED <<engineVars, lastCall, now, calls, fnArgs, clientVars>>

CheckCollision ==
  \E offset \in Offsets :
     Applied([fn |-> "checkCollision", offsetX |-> offset[1], offsetY |-> offset[2],
              result |-> checkCollision(fnArgs.board, fnArgs.tetromino,
                                        offset[1], offset[2])])

CanRotate ==
  Applied([fn |-> "canRotate",
           result |-> canRotate(fnArgs.board, fnArgs.tetromino,
                                rotateTetromino(fnArgs.tetromino))])

\* The ghost of a piece that does not collide where it is.
FindGhostPosition ==
  /\ ~checkCollision(fnArgs.board, fnArgs.tetromino, 0, 0).hasCollision
  /\ Applied([fn |-> "findGhostPosition",
              position |-> findGhostPosition(fnArgs.board, fnArgs.tetromino),
              distance |-> calculateHardDropDistance(fnArgs.board, fnArgs.tetromino)])

NextResolver == CheckCollision \/ CanRotate \/ FindGhostPosition

SpecResolver == InitResolver /\ [][NextResolver]_vars

(***************************************************************************)
(* Properties                                                              *)
(***************************************************************************)
ActionOps == {"moveLeft", "moveRight", "moveDown", "rotate", "hardDrop", "hold"}
BooleanOps == ActionOps \ {"hardDrop"}
MoveOps == {"moveLeft", "moveRight", "moveDown", "rotate"}

CountEvents(evs, type) == Cardinality({i \in DOMAIN evs : evs[i].type = type})

\* C1: while the engine is paused or the game is over, moveLeft, moveRight,
\* moveDown, rotate, hardDrop, hold and update are no-ops: the boolean
\* methods return false, nothing is emitted, and board, current, next and
\* hold piece, canHold, score, lines, level and elapsed time are unchanged.
C1_NoOpWhilePausedOrGameOver ==
  [][ (isPaused \/ isGameOver) /\ lastCall'.op \in ActionOps \cup {"update"}
      => /\ (lastCall'.op \in BooleanOps => ret' = "false")
         /\ events' = <<>>
         /\ UNCHANGED <<board, currentPiece, nextPiece, holdPiece, canHold,
                        score, lines, level, elapsedTime>> ]_vars

\* An action method or update has been called on a paused engine.
C1_CalledWhilePaused ==
  /\ calls >= 1
  /\ isPaused
  /\ lastCall.op \in ActionOps \cup {"update"}

\* C2: once isGameOver is true it stays true after every call of moveLeft,
\* moveRight, moveDown, rotate, hardDrop, hold, pause, resume, togglePause
\* and update; a call of restart makes it false.
C2_GameOverIsTerminal ==
  [][ /\ (isGameOver /\ lastCall'.op # "restart" => isGameOver')
      /\ (calls' = calls + 1 /\ lastCall'.op = "restart" => ~isGameOver') ]_vars

\* The game was over and a method other than restart has been called.
C2_CalledAfterGameOver ==
  /\ calls >= 1
  /\ isGameOver
  /\ events = <<>>
  /\ lastCall.op \in {"resume", "togglePause", "pause", "hold", "update"}

\* The named rows of a call of clearLines, as a set.
Named(lineIndices) == {lineIndices[k] : k \in DOMAIN lineIndices}

\* The rows of board that lineIndices does not name, in their order.
RowsNotNamed(b, lineIndices) ==
  SelectSeq([r \in 1..Len(b) |-> r - 1], LAMBDA r : r \notin Named(lineIndices))

\* What C3 asks of the board result that clearLines returns for board b.
ClearedAsNamed(b, lineIndices, result) ==
  /\ Len(result) = BOARD_ROWS
  /\ \A r \in 1..Len(lineIndices) : result[r] = EmptyLine
  /\ \A j \in 1..(BOARD_ROWS - Len(lineIndices)) :
        result[Len(lineIndices) + j] = b[RowsNotNamed(b, lineIndices)[j] + 1]
  /\ \A s \in IndexSeqs :
        Named(s) = Named(lineIndices) => clearLines(b, s) = result

\* C3: for every board and every k >= 1 row indices, clearLines returns a
\* board whose top k rows are vacant and whose other rows are the rows of
\* the input that were not named, in their order, whatever the order the
\* indices are given in.
C3_ClearLinesRemovesNamedRows ==
  fnResult # NoArgs =>
    ClearedAsNamed(fnArgs.board, fnArgs.lineIndices, fnResult.board)

\* The catalog entry of a piece's type.
WellFormed(p) ==
  \/ p = NULL
  \/ /\ p.rotation \in 0..(Len(TETROMINO_SHAPES[p.type].shape) - 1)
     /\ p.shape = TETROMINO_SHAPES[p.type].shape[p.rotation + 1]
     /\ p.color = TETROMINO_SHAPES[p.type].color

\* C4: in every reachable state the current, next and hold piece (when
\* present) have a rotation within the rotations of their type, the catalog
\* matrix of their type and rotation, and the catalog colour of their type.
C4_PiecesWellFormed ==
  WellFormed(currentPiece) /\ WellFormed(nextPiece) /\ WellFormed(holdPiece)

\* The engine state a refused call leaves alone.
stateVars ==
  <<board, currentPiece, nextPiece, holdPiece, canHold, score, lines, level,
    isGameOver, statePaused, gameMode, lastDropTime, elapsedTime, isPaused, combo>>

\* C5: canHold is true exactly when no hold has succeeded since the current
\* piece was spawned; a hold after a successful one, with no lock between,
\* returns false and changes nothing; a completed lock makes canHold true,
\* and hold then succeeds again.
C5_HoldOncePerSpawn ==
  /\ [](canHold <=> ~heldSinceSpawn)
  /\ [][ lastCall'.op = "hold" /\ heldSinceSpawn
         => ret' = "false" /\ events' = <<>> /\ UNCHANGED stateVars ]_vars
  /\ [][ HasEvent(events', "PIECE_LOCKED") => canHold' ]_vars
  /\ [][ lastCall'.op = "hold" /\ calls' = calls + 1 /\ ~heldSinceSpawn
         /\ ~isGameOver /\ ~isPaused /\ currentPiece # NULL
         => ret' = "true" ]_vars

\* A hold has been refused because one has succeeded since the spawn.
C5_SecondHoldRefused ==
  /\ calls = 2
  /\ lastCall.op = "hold"
  /\ ret = "false"
  /\ ~isGameOver /\ ~isPaused /\ ~canHold

\* C6: a successful hold with an empty slot puts the current type into the
\* slot, makes the next piece current and draws a new next piece; with an
\* occupied slot it exchanges the two types and leaves the next piece; the
\* new current piece is at the spawn position with rotation 0, and board,
\* score, lines and level are unchanged.
C6_HoldExchangesTypes ==
  [][ lastCall'.op = "hold" /\ calls' = calls + 1 /\ ret' = "true"
      => /\ IF holdPiece = NULL
            THEN /\ holdPiece' # NULL
                 /\ holdPiece'.type = currentPiece.type
                 /\ currentPiece' = nextPiece
                 /\ \E k \in DOMAIN ALL_TETROMINO_TYPES :
                       nextPiece' = createTetromino(ALL_TETROMINO_TYPES[k])
            ELSE /\ currentPiece'.type = holdPiece.type
                 /\ holdPiece'.type = currentPiece.type
                 /\ nextPiece' = nextPiece
         /\ currentPiece'.position = SPAWN_POSITION
         /\ currentPiece'.rotation = 0
         /\ UNCHANGED <<board, score, lines, level>> ]_vars

\* A hold has exchanged the current type L with the held type I.
C6_TypesExchanged ==
  /\ calls >= 1
  /\ lastCall.op = "hold"
  /\ ret = "true"
  /\ holdPiece # NULL
  /\ holdPiece.type = "L"
  /\ currentPiece.type = "I"

\* The current piece moved straight down to row ghostY.
DroppedTo(ghostY) == [currentPiece EXCEPT !.position.y = ghostY]

\* What C7 asks of a hardDrop that drops the current piece to row ghostY.
HardDropEffect(ghostY) ==
  /\ score' = score + 2 * (2 * (ghostY - currentPiece.position.y))
                    + 2 * calculateLineScore(lines' - lines, level)
  /\ score' >= score + 2 * (2 * (ghostY - currentPiece.position.y))
  /\ CountEvents(events', "PIECE_LOCKED") <= 1
  /\ CountEvents(events', "PIECE_LOCKED") = 1 \/ isGameOver'
  /\ CountEvents(events', "PIECE_LOCKED") = 1 =>
        /\ currentPiece' = nextPiece
        /\ lines' = lines => board' = lockPiece(board, DroppedTo(ghostY))
  /\ CountEvents(events', "PIECE_LOCKED") = 0 =>
        /\ currentPiece' = DroppedTo(ghostY)
        /\ board' = board
  /\ isGameOver' \/ currentPiece' = nextPiece

\* C7: hardDrop on a running engine moves the current piece straight down
\* to its ghost position, adds 2 * (ghostY - currentY) points plus the line
\* bonus of the lock to the score, and runs the lock sequence once: after it
\* the game is over or the previous next piece is the current piece.
C7_HardDropScoresAndLocksOnce ==
  [][ lastCall'.op = "hardDrop" /\ calls' = calls + 1
      /\ ~isGameOver /\ ~isPaused /\ currentPiece # NULL
      => HardDropEffect(findGhostPosition(board, currentPiece).y) ]_vars

\* A hard drop of at least one row has completed a line.
C7_HardDropClearedLine ==
  /\ calls >= 1
  /\ lastCall.op = "hardDrop"
  /\ HasEvent(events, "LINE_CLEARED")
  /\ score > 0
  /\ ~isGameOver

\* An occupied cell of piece p has y < 0.
HasCellAbove(p) ==
  \E k \in DOMAIN getTetrominoOccupiedCells(p) :
     getTetrominoOccupiedCells(p)[k].y < 0

\* The call made by this step runs the lock sequence on a current piece
\* that has a cell above the board.
LockAboveBoard ==
  /\ calls' = calls + 1
  /\ ~isGameOver /\ ~isPaused /\ currentPiece # NULL
  /\ \/ /\ lastCall'.op = "moveDown"
        /\ ~canMoveDown(board, currentPiece)
        /\ HasCellAbove(currentPiece)
     \/ /\ lastCall'.op = "hardDrop"
        /\ HasCellAbove(DroppedTo(findGhostPosition(board, currentPiece).y))
     \/ /\ lastCall'.op = "update"
        /\ ~isTimeUp(gameMode, elapsedTime')
        /\ now' - lastDropTime >= getDropSpeed(level)
        /\ ~canMoveDown(board, currentPiece)
        /\ HasCellAbove(currentPiece)

\* C8: a lock sequence run while a cell of the current piece is above the
\* board ends the game and stops: the board is unchanged, no PIECE_LOCKED
\* or LINE_CLEARED is emitted, no piece is spawned, and every later
\* moveLeft, moveRight, moveDown and rotate returns false.
C8_LockAboveBoardEndsGame ==
  /\ [][ LockAboveBoard
         => /\ isGameOver'
            /\ HasEvent(events', "GAME_OVER")
            /\ board' = board
            /\ ~HasEvent(events', "PIECE_LOCKED")
            /\ ~HasEvent(events', "LINE_CLEARED")
            /\ nextPiece' = nextPiece
            /\ currentPiece'.type = currentPiece.type
            /\ currentPiece'.shape = currentPiece.shape ]_vars
  /\ [][ isGameOver /\ lastCall'.op \in MoveOps => ret' = "false" ]_vars

\* A failed soft drop, hard drop or gravity step has ended a Classic game
\* without locking the piece.
C8_EndedAboveBoard ==
  /\ calls >= 1
  /\ lastCall.op \in {"moveDown", "hardDrop", "update"}
  /\ gameMode = "CLASSIC"
  /\ isGameOver
  /\ HasEvent(events, "GAME_OVER")
  /\ ~HasEvent(events, "PIECE_LOCKED")

\* The TIME_WARNING events of evs for the threshold seconds.
CountWarnings(evs, seconds) ==
  Cardinality({i \in DOMAIN evs :
                 /\ evs[i].type = "TIME_WARNING"
                 /\ evs[i].data.secondsRemaining = seconds})

\* This step's elapsed time takes the remaining time from above the
\* threshold to the threshold or below.
Crosses(seconds) ==
  /\ timeLimitTicks(gameMode) - elapsedTime > seconds * TICKS_PER_S
  /\ timeLimitTicks(gameMode) - elapsedTime' <= seconds * TICKS_PER_S

\* C9: in Timed mode an update emits exactly one TIME_WARNING for a
\* threshold (30, 10, 5 seconds) when its delta, of whatever size, takes the
\* remaining time across the threshold, and none when it does not.
C9_OneWarningPerCrossing ==
  [][ lastCall'.op = "update" /\ calls' = calls + 1
      /\ gameMode = "ULTRA" /\ ~isGameOver /\ ~isPaused
      => \A k \in DOMAIN TIME_WARNINGS :
            CountWarnings(events', TIME_WARNINGS[k])
              = IF Crosses(TIME_WARNINGS[k]) THEN 1 ELSE 0 ]_vars

\* C10: in Timed mode the update in which the elapsed time reaches the
\* limit emits TIME_UP and then GAME_OVER, sets isGameOver and makes no
\* gravity step and no lock; in Classic mode no update emits TIME_WARNING
\* or TIME_UP, and none ends the game by time.
C10_TimeUpEndsTimedGameOnly ==
  /\ [][ lastCall'.op = "update" /\ calls' = calls + 1
         /\ gameMode = "ULTRA" /\ ~isGameOver /\ ~isPaused
         /\ elapsedTime' >= timeLimitTicks("ULTRA")
         => /\ isGameOver'
            /\ Len(events') = 2
            /\ events'[1].type = "TIME_UP"
            /\ events'[2].type = "GAME_OVER"
            /\ UNCHANGED <<board, currentPiece, nextPiece, score, lines, level>> ]_vars
  /\ [][ lastCall'.op = "update" /\ gameMode = "CLASSIC"
         => /\ ~HasEvent(events', "TIME_WARNING")
            /\ ~HasEvent(events', "TIME_UP")
            /\ (isGameOver' /\ ~isGameOver
                  => ~canMoveDown(board, currentPiece)) ]_vars

\* A timed game has been ended by an update while a gravity step was due.
C10_TimedOut ==
  /\ calls >= 1
  /\ lastCall.op = "update"
  /\ gameMode = "ULTRA"
  /\ HasEvent(events, "TIME_UP")
  /\ isGameOver
  /\ lastDropTime = now
  /\ now > 0

\* The game state of engine e that a caller can observe.
GameStateOf(e) ==
  <<e.board, e.currentPiece, e.nextPiece, e.holdPiece, e.canHold, e.score,
    e.lines, e.level, e.isGameOver, e.statePaused, e.gameMode, e.elapsedTime>>

\* C11: gravity is driven by the deltas passed to update only: the state an
\* update leads to is the state the same update, with the same delta and
\* draw, leads to whatever wall-clock time has passed before the call.
C11_GravityFromDeltasOnly ==
  [][ lastCall'.op = "update" /\ calls' = calls + 1
      => \A adv \in ClockAdvances : \E d \in DrawTypes :
            GameStateOf(Do(Engine, Call("update", lastCall'.deltaTime, "undefined",
                                        <<d, d>>, now + adv)))
              = GameStateOf(Engine') ]_vars

\* C12: the score never decreases within a session: after every call other
\* than restart the score is at least the score before it.
C12_ScoreNeverDecreases ==
  [][ lastCall'.op # "restart" => score' >= score ]_vars

\* A lock that cleared two rows has raised a score that was already positive.
C12_ScoreRaisedByClear ==
  /\ calls >= 1
  /\ lastCall.op \in {"hardDrop", "moveDown", "update"}
  /\ HasEvent(events, "SCORE_UPDATED")
  /\ lines = 2
  /\ score > 2 * calculateLineScore(2, 0)

\* C13: in every reachable state level = min(floor(lines / LINES_PER_LEVEL),
\* MAX_LEVEL); the level never exceeds MAX_LEVEL and, within a session,
\* never decreases.
C13_LevelFollowsLines ==
  /\ [](/\ level = (IF lines \div LINES_PER_LEVEL < MAX_LEVEL
                    THEN lines \div LINES_PER_LEVEL ELSE MAX_LEVEL)
        /\ level <= MAX_LEVEL)
  /\ [][ lastCall'.op # "restart" => level' >= level ]_vars

\* Four lines have been cleared and the level has risen to 1.
C13_LevelRaised ==
  /\ calls >= 1
  /\ lines = 4
  /\ level = 1
  /\ HasEvent(events, "LINE_CLEARED")

\* C14: in every reachable state a current piece is present if and only if
\* the game is not over.
C14_CurrentPieceIffRunning ==
  (currentPiece # NULL) <=> ~isGameOver

\* The call made by this step is op, on a running engine.
RunningCall(op) ==
  /\ lastCall'.op = op
  /\ calls' = calls + 1
  /\ ~isGameOver /\ ~isPaused /\ currentPiece # NULL

\* The one event a successful move in direction emits.
PieceMoved(direction) ==
  <<[type |-> "PIECE_MOVED", data |-> [direction |-> direction]]>>

\* The lock sequence has run once on the current piece where it was.
LockedInPlace ==
  IF HasCellAbove(currentPiece)
  THEN /\ isGameOver'
       /\ CountEvents(events', "PIECE_LOCKED") = 0
       /\ CountEvents(events', "GAME_OVER") = 1
       /\ board' = board
       /\ currentPiece' = currentPiece
  ELSE /\ CountEvents(events', "PIECE_LOCKED") = 1
       /\ currentPiece' = nextPiece
       /\ lines' = lines => board' = lockPiece(board, currentPiece)
       /\ lines' # lines => HasEvent(events', "LINE_CLEARED")

\* C15: moveDown on a running engine either moves the current piece down by
\* one row, adds the soft-drop bonus of one cell (half a point), emits
\* PIECE_MOVED(down) and returns true, when the piece one row down does not
\* collide; or, when it does, leaves the piece where it is, runs the lock
\* sequence once and returns false.
C15_MoveDownMovesOrLocks ==
  [][ RunningCall("moveDown")
      => IF ~checkCollision(board, currentPiece, 0, 1).hasCollision
         THEN /\ ret' = "true"
              /\ currentPiece' = [currentPiece EXCEPT !.position.y = @ + 1]
              /\ score' = score + 1
              /\ events' = PieceMoved("down")
              /\ UNCHANGED <<board, nextPiece, holdPiece, canHold, lines, level,
                             isGameOver>>
         ELSE /\ ret' = "false"
              /\ ~HasEvent(events', "PIECE_MOVED")
              /\ LockedInPlace ]_vars

\* A soft drop has locked a piece that could not move down.
C15_SoftDropLocked ==
  /\ calls >= 1
  /\ lastCall.op = "moveDown"
  /\ ret = "false"
  /\ HasEvent(events, "PIECE_LOCKED")

\* What C16 asks of a sideways move by dx columns, reported as direction.
SidewaysMove(dx, direction) ==
  /\ ret' = "true" <=> ~checkCollision(board, currentPiece, dx, 0).hasCollision
  /\ ret' = "true" =>
        /\ currentPiece' = [currentPiece EXCEPT !.position.x = @ + dx]
        /\ events' = PieceMoved(direction)
        /\ UNCHANGED <<board, nextPiece, holdPiece, canHold, score, lines, level,
                       isGameOver, isPaused>>
  /\ ret' # "true" =>
        /\ ret' = "false"
        /\ events' = <<>>
        /\ UNCHANGED stateVars

\* C16: moveLeft and moveRight on a running engine return true iff the
\* current piece shifted by one column does not collide; on true the piece's
\* x changes by exactly one, nothing else of the piece, the board, the score
\* or the hold state changes, and one PIECE_MOVED is emitted; on false the
\* state is unchanged and nothing is emitted.
C16_SidewaysMoveIffFree ==
  [][ /\ RunningCall("moveLeft") => SidewaysMove(-1, "left")
      /\ RunningCall("moveRight") => SidewaysMove(1, "right") ]_vars

\* A move to the right has been refused on a running engine.
C16_MoveRightRefused ==
  /\ calls >= 1
  /\ lastCall.op = "moveRight"
  /\ ret = "false"
  /\ ~isGameOver /\ ~isPaused
  /\ events = <<>>

\* The rotations the catalog has for type.
RotationCount(type) == Len(TETROMINO_SHAPES[type].shape)

\* C17: rotate on a running engine, when it succeeds, leaves the current
\* piece with rotation (r + 1) mod the rotation count of its type and the
\* catalog shape of that rotation, x shifted by a kick of 0 to 3 columns
\* either way, y unchanged and no collision with the board, and emits one
\* PIECE_ROTATED; when it fails it returns false, emits nothing and changes
\* no state.
C17_RotateKicksOrRefuses ==
  [][ RunningCall("rotate")
      => /\ ret' = "true" =>
              /\ currentPiece'.type = currentPiece.type
              /\ currentPiece'.rotation
                   = (currentPiece.rotation + 1) % RotationCount(currentPiece.type)
              /\ currentPiece'.shape
                   = TETROMINO_SHAPES[currentPiece.type].shape[currentPiece'.rotation + 1]
              /\ currentPiece'.position.y = currentPiece.position.y
              /\ currentPiece'.position.x - currentPiece.position.x \in -3..3
              /\ ~checkCollision(board, currentPiece', 0, 0).hasCollision
              /\ events' = <<[type |-> "PIECE_ROTATED", data |-> NoData]>>
              /\ UNCHANGED <<board, nextPiece, holdPiece, canHold, score, lines,
                             level, isGameOver, isPaused>>
         /\ ret' # "true" =>
              /\ ret' = "false"
              /\ events' = <<>>
              /\ UNCHANGED stateVars ]_vars

\* The upright I piece at the right wall has been rotated with a kick of one
\* column to the left.
C17_RotatedWithKick ==
  /\ calls >= 1
  /\ lastCall.op = "rotate"
  /\ ret = "true"
  /\ currentPiece.type = "I"
  /\ currentPiece.rotation = 2
  /\ currentPiece.position.x = 6

\* The rotated piece of the call, shifted by offset columns, does not collide.
KickFits(offset) ==
  ~checkCollision(fnArgs.board, rotateTetromino(fnArgs.tetromino), offset, 0).hasCollision

\* The side the kicks are probed to: -1 (left) when the un-rotated piece's
\* position.x is right of the board centre, else +1.
KickSide == IF 2 * fnArgs.tetromino.position.x > BOARD_COLS THEN -1 ELSE 1

\* What C18 asks canRotate to return; valid is FALSE for null.
ExpectedKick ==
  IF KickFits(0) THEN [valid |-> TRUE, kick |-> 0]
  ELSE IF KickFits(KickSide) THEN [valid |-> TRUE, kick |-> KickSide]
  ELSE IF KickFits(2 * KickSide) THEN [valid |-> TRUE, kick |-> 2 * KickSide]
  ELSE IF KickFits(3 * KickSide) THEN [valid |-> TRUE, kick |-> 3 * KickSide]
  ELSE [valid |-> FALSE, kick |-> 0]

\* C18: canRotate returns 0 when the rotated piece fits at offset 0; else
\* the first of -1, -2, -3 (piece right of the centre) or of +1, +2, +3
\* (otherwise) at which the rotated piece does not collide; null iff offset 0
\* and the three probed offsets all collide; and never an offset at which
\* the rotated piece collides.
C18_CanRotateFirstFreeKick ==
  fnResult.fn = "canRotate" =>
    /\ fnResult.result = ExpectedKick
    /\ fnResult.result.valid => KickFits(fnResult.result.kick)

\* canRotate has returned a kick of two columns to the left.
C18_KickedTwoLeft ==
  /\ fnResult.fn = "canRotate"
  /\ fnResult.result.valid
  /\ fnResult.result.kick = -2

\* The rule a translated cell violates, "none" when it violates none.
Violation(b, cx, cy) ==
  IF cx < 0 \/ cx >= BOARD_COLS THEN "wall"
  ELSE IF cy >= BOARD_ROWS THEN "floor"
  ELSE IF cy < 0 THEN "none"
  ELSE IF b[cy + 1][cx + 1] # VACANT_COLOR THEN "piece"
  ELSE "none"

\* The occupied cells of the call's piece, in row-major order, that violate
\* a rule when translated by (dx, dy).
ViolatingCells(dx, dy) ==
  SelectSeq(getTetrominoOccupiedCells(fnArgs.tetromino),
            LAMBDA c : Violation(fnArgs.board, c.x + dx, c.y + dy) # "none")

\* The violation of the first cell of the sequence cells, translated.
FirstViolation(cells, dx, dy) ==
  IF Len(cells) = 0 THEN "none"
  ELSE Violation(fnArgs.board, cells[1].x + dx, cells[1].y + dy)

\* C19: checkCollision reports the violation of the first occupied cell, in
\* row-major order, that violates a rule: x outside the columns is "wall"
\* (also when y < 0), else y at or below the floor is "floor", else y < 0 is
\* skipped, else a non-vacant cell is "piece"; hasCollision is false iff no
\* cell violates a rule.
C19_FirstViolationWins ==
  fnResult.fn = "checkCollision" =>
    /\ fnResult.result.reason
         = FirstViolation(ViolatingCells(fnResult.offsetX, fnResult.offsetY),
                          fnResult.offsetX, fnResult.offsetY)
    /\ fnResult.result.hasCollision
         <=> Len(ViolatingCells(fnResult.offsetX, fnResult.offsetY)) > 0

\* checkCollision has reported the wall for a piece wholly above the board.
C19_WallAboveBoard ==
  /\ fnResult.fn = "checkCollision"
  /\ fnResult.result.reason = "wall"
  /\ fnResult.offsetY = 0
  /\ \A k \in DOMAIN getTetrominoOccupiedCells(fnArgs.tetromino) :
        getTetrominoOccupiedCells(fnArgs.tetromino)[k].y < 0

\* The call's piece moved down by dy rows collides.
CollidesBelow(dy) ==
  checkCollision(fnArgs.board, fnArgs.tetromino, 0, dy).hasCollision

\* C20: for a piece that does not collide where it is, findGhostPosition
\* returns the piece's x and the largest y reachable by straight descent:
\* ghostY >= currentY, no collision at any row from currentY to ghostY, a
\* collision at ghostY + 1; and the hard-drop distance is ghostY - currentY.
C20_GhostIsLowestFreeRow ==
  fnResult.fn = "findGhostPosition" =>
    /\ fnResult.position.x = fnArgs.tetromino.position.x
    /\ fnResult.position.y >= fnArgs.tetromino.position.y
    /\ \A dy \in 0..(fnResult.position.y - fnArgs.tetromino.position.y) :
          ~CollidesBelow(dy)
    /\ CollidesBelow(fnResult.position.y - fnArgs.tetromino.position.y + 1)
    /\ fnResult.distance = fnResult.position.y - fnArgs.tetromino.position.y
    /\ fnResult.distance >= 0

\* A piece starting above the board has its ghost on top of locked cells.
C20_GhostOnStack ==
  /\ fnResult.fn = "findGhostPosition"
  /\ fnArgs.board # createBoard
  /\ fnArgs.tetromino.position.y = -2
  /\ fnResult.distance > 0
  /\ checkCollision(fnArgs.board, fnArgs.tetromino, 0, fnResult.distance + 1).reason = "piece"

\* The hard drop made by this step locks the current piece, wholly on the
\* board, and completes n rows.
HardDropCompletes(n) ==
  /\ RunningCall("hardDrop")
  /\ ~HasCellAbove(DroppedTo(findGhostPosition(board, currentPiece).y))
  /\ Len(findCompleteLines(
           lockPiece(board, DroppedTo(findGhostPosition(board, currentPiece).y)))) = n

\* evs holds a LINE_CLEARED event for four rows whose bonus (in half
\* points) exceeds four single-line scores at level atLevel.
TetrisBeatsSingles(evs, atLevel) ==
  \E i \in DOMAIN evs :
     /\ evs[i].type = "LINE_CLEARED"
     /\ evs[i].data.count = 4
     /\ evs[i].data.bonus > 4 * (2 * calculateLineScore(1, atLevel))

\* C21: a lock that completes four rows emits LINE_CLEARED with count = 4,
\* and its score delta lineScore(4, L) is strictly larger than that of four
\* single-line clears at the same level L, 4 * lineScore(1, L), at every
\* level.
C21_TetrisBeatsFourSingles ==
  [][ HardDropCompletes(4) => TetrisBeatsSingles(events', level) ]_vars

(***************************************************************************)
(* calculateLineScore as a function of its arguments: the initial states   *)
(* draw two pairs of arguments, and the one action applies it to both.     *)
(***************************************************************************)
\* The row counts a lock can clear, and the levels of a game.
ClearCounts == 0..4
Levels == 0..MAX_LEVEL

InitScoring ==
  /\ InitFrom(Session(Start("CLASSIC", "I", "O", <<>>)))
  /\ now = 0
  /\ calls = 0
  /\ \E n1, n2 \in ClearCounts, l1, l2 \in Levels :
        fnArgs = [fn |-> "calculateLineScore",
                  first  |-> [linesCleared |-> n1, currentLevel |-> l1],
                  second |-> [linesCleared |-> n2, currentLevel |-> l2]]
  /\ fnResult = NoArgs

CalculateLineScore ==
  /\ fnArgs.fn = "calculateLineScore"
  /\ fnResult = NoArgs
  /\ fnResult' =
       [fn |-> "calculateLineScore",
        first  |-> calculateLineScore(fnArgs.first.linesCleared,
                                      fnArgs.first.currentLevel),
        second |-> calculateLineScore(fnArgs.second.linesCleared,
                                      fnArgs.second.currentLevel)]
  /\ UNCHANGED <<engineVars, lastCall, now, calls, fnArgs, clientVars>>

NextScoring == CalculateLineScore

SpecScoring == InitScoring /\ [][NextScoring]_vars

\* C22: lineScore(0, L) = 0 at every level; at a fixed level the score is
\* positive for one row and strictly larger for each further row up to
\* four; and the score of one row is strictly larger at a higher level.
C22_LineScoreOrdered ==
  fnResult.fn = "calculateLineScore" =>
    /\ fnArgs.first.linesCleared = 0 => fnResult.first = 0
    /\ fnArgs.first.linesCleared >= 1 => fnResult.first > 0
    /\ (/\ fnArgs.first.currentLevel = fnArgs.second.currentLevel
        /\ fnArgs.second.linesCleared >= 1
        /\ fnArgs.first.linesCleared > fnArgs.second.linesCleared)
       => fnResult.first > fnResult.second
    /\ (/\ fnArgs.first.linesCleared = 1
        /\ fnArgs.second.linesCleared = 1
        /\ fnArgs.first.currentLevel > fnArgs.second.currentLevel)
       => fnResult.first > fnResult.second

\* Four rows and three rows scored at the highest level.
C22_FourAboveThree ==
  /\ fnResult.fn = "calculateLineScore"
  /\ fnArgs.first = [linesCleared |-> 4, currentLevel |-> MAX_LEVEL]
  /\ fnArgs.second = [linesCleared |-> 3, currentLevel |-> MAX_LEVEL]
  /\ fnResult.first = 1320
  /\ fnResult.second = 1200

\* C23: during a lock LEVEL_UP is emitted if and only if state.level after
\* the clear is larger than before it, at most once per lock and with the
\* new state.level as its payload; once the level has reached MAX_LEVEL no
\* further LEVEL_UP is emitted.
C23_LevelUpIffLevelRaised ==
  [][ calls' = calls + 1 =>
        /\ CountEvents(events', "LEVEL_UP") = (IF level' > level THEN 1 ELSE 0)
        /\ \A i \in DOMAIN events' :
              events'[i].type = "LEVEL_UP" => events'[i].data = [level |-> level']
        /\ level = MAX_LEVEL => ~HasEvent(events', "LEVEL_UP") ]_vars

\* A lock has raised the level to MAX_LEVEL.
C23_LastLevelReached ==
  /\ calls >= 1
  /\ lastCall.op = "hardDrop"
  /\ level = MAX_LEVEL
  /\ HasEvent(events, "LINE_CLEARED")
  /\ CountEvents(events, "LEVEL_UP") = 1

\* Piece p is a piece of the catalog as createTetromino makes it: at the
\* spawn position, in rotation 0.
FreshPiece(p) ==
  \E k \in DOMAIN ALL_TETROMINO_TYPES : p = createTetromino(ALL_TETROMINO_TYPES[k])

\* The state restart leaves, but for the game mode.
FreshGame ==
  /\ board' = [r \in 1..BOARD_ROWS |-> [c \in 1..BOARD_COLS |-> VACANT_COLOR]]
  /\ score' = 0 /\ lines' = 0 /\ level' = 0
  /\ holdPiece' = NULL /\ canHold'
  /\ ~statePaused' /\ ~isPaused' /\ ~isGameOver'
  /\ elapsedTime' = 0
  /\ FreshPiece(currentPiece') /\ FreshPiece(nextPiece')

\* C24: restart(mode?) from any state, running, paused or game over, leaves
\* a fresh initial state: a vacant board, score, lines and level 0, no hold
\* piece, canHold true, not paused, not game over, elapsed time 0, current
\* and next piece at the spawn position in rotation 0, and the game mode
\* given, or the previous one when the mode is omitted.
C24_RestartGivesFreshGame ==
  [][ lastCall'.op = "restart" /\ calls' = calls + 1 =>
        /\ FreshGame
        /\ gameMode' = (IF lastCall'.mode = "undefined" THEN gameMode
                        ELSE lastCall'.mode) ]_vars

\* A restart without a mode has left a fresh timed game.
C24_RestartedInSameMode ==
  /\ calls >= 1
  /\ lastCall.op = "restart"
  /\ lastCall.mode = "undefined"
  /\ gameMode = "ULTRA"
  /\ elapsedTime = 0
  /\ score = 0
  /\ ~isGameOver



\* The calls of the pause machine.
PauseOps == {"pause", "resume", "togglePause"}

\* The step makes no transition: no field of the engine changes and no
\* event is emitted.
NoTransition ==
  /\ UNCHANGED stateVars
  /\ events' = <<>>

\* The step makes the one transition to paused (TRUE) or to running (FALSE),
\* emitting type exactly once.
Transition(paused, type) ==
  /\ isPaused' = paused /\ statePaused' = paused
  /\ UNCHANGED <<board, currentPiece, nextPiece, holdPiece, canHold, score,
                 lines, level, isGameOver, gameMode, elapsedTime>>
  /\ CountEvents(events', type) = 1
  /\ Len(events') = 1

\* C25: the pause machine has only the transitions Running -> Paused, by
\* pause() or togglePause(), emitting GAME_PAUSED exactly once, and
\* Paused -> Running, by resume() or togglePause(), emitting GAME_RESUMED
\* exactly once; pause() while paused, resume() while running, and all three
\* after a game over change no state and emit no event.
C25_PauseMachine ==
  [][ lastCall'.op \in PauseOps /\ calls' = calls + 1 =>
        IF isGameOver THEN NoTransition
        ELSE IF ~isPaused /\ lastCall'.op \in {"pause", "togglePause"}
        THEN Transition(TRUE, "GAME_PAUSED")
        ELSE IF isPaused /\ lastCall'.op \in {"resume", "togglePause"}
        THEN Transition(FALSE, "GAME_RESUMED")
        ELSE NoTransition ]_vars

(***************************************************************************)
(* Event subscription: listeners are added to and removed from a newly     *)
(* constructed engine, and calls on the engine emit events.                *)
(***************************************************************************)
\* The callbacks and the event types subscribed to.
Callbacks == {"onFirst", "onSecond"}
ListenedTypes == {"GAME_PAUSED", "PIECE_MOVED"}
\* Registrations held at a time, over all types.
MaxListeners == 3

RECURSIVE registrations(_, _)
registrations(listeners, types) ==
  IF types = {} THEN 0
  ELSE Len(listeners[CHOOSE t \in types : TRUE])
       + registrations(listeners, types \ {CHOOSE t \in types : TRUE})

InitListeners ==
  /\ InitFrom(Session(Start("CLASSIC", "I", "O", <<>>)))
  /\ now = 0
  /\ calls = 0
  /\ fnArgs = NoArgs
  /\ fnResult = NoArgs

\* A call of addEventListener or removeEventListener leaving listeners.
Subscription(op, type, callback, listeners) ==
  /\ eventListeners' = listeners
  /\ lastCall' = [op |-> op, type |-> type, callback |-> callback]
  /\ invoked' = <<>>
  /\ UNCHANGED <<engineVars, now, calls, fnArgs, fnResult, snapshot,
                 inputHandler, activeElement>>

AddEventListener ==
  \E type \in ListenedTypes, callback \in Callbacks :
     /\ registrations(eventListeners, ListenedTypes) < MaxListeners
     /\ Subscription("addEventListener", type, callback,
                     addEventListener(eventListeners, type, callback))

RemoveEventListener ==
  \E type \in ListenedTypes, callback \in Callbacks :
     Subscription("removeEventListener", type, callback,
                  removeEventListener(eventListeners, type, callback))

NextListeners ==
  \/ AddEventListener \/ RemoveEventListener
  \/ MoveLeft \/ Pause \/ Resume \/ TogglePause

SpecListeners == InitListeners /\ [][NextListeners]_vars

\* Callback cb is among the listeners of type t.
Registered(listeners, t, cb) == \E i \in DOMAIN listeners[t] : listeners[t][i] = cb

\* The invocations of cb for events of type t in the log.
Invocations(log, t, cb) ==
  Cardinality({i \in DOMAIN log : log[i].callback = cb /\ log[i].type = t})

\* What C26 asks of a call on the engine: each registered callback is
\* invoked once per emission of its type and not otherwise, and the
\* callbacks of one emission run in registration order.
EmissionsDelivered ==
  /\ \A t \in GameEventType, cb \in Callbacks :
        Invocations(invoked', t, cb) =
          (IF Registered(eventListeners, t, cb) THEN CountEvents(events', t) ELSE 0)
  /\ \A i, j \in DOMAIN invoked' :
        i < j /\ invoked'[i].event = invoked'[j].event =>
          indexOf(eventListeners[invoked'[i].type], invoked'[i].callback)
            < indexOf(eventListeners[invoked'[j].type], invoked'[j].callback)

\* What C26 asks of removeEventListener(t, cb): the callback is no longer
\* among the listeners of t, the other listeners stay as they are, and
\* nothing changes when the callback was not registered.
ListenerRemoved(t, cb) ==
  /\ ~Registered(eventListeners', t, cb)
  /\ eventListeners'[t] = SelectSeq(eventListeners[t], LAMBDA c : c # cb)
  /\ \A u \in GameEventType \ {t} : eventListeners'[u] = eventListeners[u]
  /\ ~Registered(eventListeners, t, cb) => eventListeners' = eventListeners

\* C26: a callback added with addEventListener(type, cb) is invoked once
\* per emission of that type and not for other types, the callbacks of one
\* type are invoked in registration order, after removeEventListener(type,
\* cb) the callback is no longer invoked, and removing a callback that is
\* not registered changes nothing.
C26_ListenersInvokedOncePerEmission ==
  [][ /\ calls' = calls + 1 => EmissionsDelivered
      /\ lastCall'.op = "removeEventListener" =>
            ListenerRemoved(lastCall'.type, lastCall'.callback) ]_vars

\* C27: the board always has exactly BOARD_ROWS rows of exactly BOARD_COLS
\* cells each; no lock, line clear of any number of rows, hold or restart
\* changes its dimensions.
C27_BoardKeepsDimensions ==
  /\ Len(board) = BOARD_ROWS
  /\ \A r \in DOMAIN board : Len(board[r]) = BOARD_COLS

\* A lock has cleared four rows at once.
C27_FourRowsCleared ==
  /\ calls >= 1
  /\ lastCall.op = "hardDrop"
  /\ \E i \in DOMAIN events :
        events[i].type = "LINE_CLEARED" /\ events[i].data.count = 4

(***************************************************************************)
(* Snapshots: getState and getGhostPosition are called between the calls   *)
(* that change the engine.                                                 *)
(***************************************************************************)
InitSnapshots ==
  /\ \E prefix \in {<<>>, HeldPrefix, HeldLockedPrefix} :
        InitFrom(Session(Start("CLASSIC", "I", "O", prefix)))
  /\ now = 0
  /\ calls = 0
  /\ fnArgs = NoArgs
  /\ fnResult = NoArgs

\* A call of getState or getGhostPosition returning value.
Returned(op, value) ==
  /\ snapshot' = value
  /\ lastCall' = [op |-> op]
  /\ invoked' = <<>>
  /\ UNCHANGED <<engineVars, now, calls, fnArgs, fnResult, eventListeners,
                 inputHandler, activeElement>>

GetState == Returned("getState", getState(Engine))

GetGhostPosition == Returned("getGhostPosition", getGhostPosition(Engine))

NextSnapshots ==
  \/ GetState \/ GetGhostPosition
  \/ MoveLeft \/ MoveDown \/ Rotate \/ HardDrop \/ Hold \/ Restart

SpecSnapshots == InitSnapshots /\ [][NextSnapshots]_vars

\* The board and the pieces reachable from snapshot snap.
Reachable(snap) ==
  IF snap.of = "getState"
  THEN <<snap.board, snap.currentPiece, snap.nextPiece, snap.holdPiece>>
  ELSE <<snap.piece>>

\* C28: the snapshot getState returned and the piece getGhostPosition
\* returned are values: no later call on the engine changes the board cells
\* or the type, shape, rotation or position of a piece reachable from them.
C28_SnapshotsAreValues ==
  [][ calls' = calls + 1 /\ snapshot.of # "none"
      => Reachable(snapshot') = Reachable(snapshot) ]_vars

(***************************************************************************)
(* rotateTetromino and moveTetromino as functions of their argument: the   *)
(* initial states draw a piece; rotateTetromino is applied to it and then  *)
(* to each piece it returns, moveTetromino is applied to it once.          *)
(***************************************************************************)
\* The positions drawn for the piece's matrix origin.
TetrominoColumns == {-2, 3, 8}
TetrominoRows == {-2, 0, 18}
\* The shifts moveTetromino is called with.
Shifts == {-1, 0, 1}

InitTetromino ==
  /\ InitFrom(Session(Start("CLASSIC", "I", "O", <<>>)))
  /\ now = 0
  /\ calls = 0
  /\ \E o \in Orientations, px \in TetrominoColumns, py \in TetrominoRows :
        fnArgs = [fn |-> "tetromino", tetromino |-> PieceAt(o, px, py)]
  /\ fnResult = NoArgs

\* A call that was passed the piece given, left it as it was (both functions
\* build their result with an object spread), and returned the piece
\* tetromino; turns counts the rotations made since the piece drawn.
Transformed(fn, given, tetromino, turns) ==
  /\ fnArgs.fn = "tetromino"
  /\ fnResult' = [fn |-> fn, given |-> given, tetromino |-> tetromino,
                  turns |-> turns]
  /\ UNCHANGED <<engineVars, lastCall, now, calls, fnArgs, clientVars>>

RotateTetromino ==
  \/ /\ fnResult = NoArgs
     /\ Transformed("rotateTetromino", fnArgs.tetromino,
                    rotateTetromino(fnArgs.tetromino), 1)
  \/ /\ fnResult # NoArgs
     /\ fnResult.fn = "rotateTetromino"
     /\ fnResult.turns < Len(TETROMINO_SHAPES[fnArgs.tetromino.type].shape)
     /\ Transformed("rotateTetromino", fnResult.tetromino,
                    rotateTetromino(fnResult.tetromino), fnResult.turns + 1)

MoveTetromino ==
  \E dx, dy \in Shifts :
     /\ fnResult = NoArgs
     /\ Transformed("moveTetromino", fnArgs.tetromino,
                    moveTetromino(fnArgs.tetromino, dx, dy), 0)

NextTetromino == RotateTetromino \/ MoveTetromino

SpecTetromino == InitTetromino /\ [][NextTetromino]_vars

\* The set of cells piece p occupies.
CellSet(p) ==
  {getTetrominoOccupiedCells(p)[k] : k \in DOMAIN getTetrominoOccupiedCells(p)}

\* Piece p differs from piece q in its position at most.
SameButPosition(p, q) == p = [q EXCEPT !.position = p.position]

\* C29: applying rotateTetromino as many times as the type has rotation
\* states returns the original shape and rotation index (0 for a piece as
\* created) with the position unchanged; rotating an O piece never changes
\* its occupied cells; rotateTetromino and moveTetromino leave the piece
\* they are given as it was, only the piece returned differs.
C29_RotationsCycle ==
  /\ fnResult # NoArgs /\ fnResult.fn = "rotateTetromino" =>
        /\ fnResult.tetromino.position = fnArgs.tetromino.position
        /\ fnResult.turns = RotationCount(fnArgs.tetromino.type) =>
              /\ fnResult.tetromino = fnArgs.tetromino
              /\ fnArgs.tetromino.rotation = 0 =>
                    /\ fnResult.tetromino.rotation = 0
                    /\ fnResult.tetromino.shape =
                         TETROMINO_SHAPES[fnArgs.tetromino.type].shape[1]
        /\ fnArgs.tetromino.type = "O" =>
              CellSet(fnResult.tetromino) = CellSet(fnArgs.tetromino)
        /\ fnResult.turns = 1 => fnResult.given = fnArgs.tetromino
  /\ fnResult # NoArgs /\ fnResult.fn = "moveTetromino" =>
        /\ fnResult.given = fnArgs.tetromino
        /\ SameButPosition(fnResult.tetromino, fnArgs.tetromino)

\* A T piece created at the spawn column has been rotated four times.
C29_FullTurnOfT ==
  /\ fnResult # NoArgs
  /\ fnResult.fn = "rotateTetromino"
  /\ fnArgs.tetromino.type = "T"
  /\ fnArgs.tetromino.rotation = 0
  /\ fnResult.turns = 4
  /\ fnResult.tetromino = fnArgs.tetromino

(***************************************************************************)
(* The InputHandler: callbacks are registered, the focus moves between the *)
(* page and a text input, and keys go down and up.  The keydown events of  *)
(* the page reach the handlers registered on document whatever element has *)
(* the focus.                                                              *)
(***************************************************************************)
\* The keys pressed: bound to restart, moveLeft and rotate, and unbound.
InputKeys == {"r", "ArrowLeft", "ArrowUp", "x"}
\* The actions callbacks are registered for.
CallbackActions == {"restart", "moveLeft", "rotate"}
\* Date.now() when the handler is constructed, and the time the clock runs.
InputEpoch == 1000
MaxInputTime == 200
ClockSteps == {0, 100}

InitInput ==
  /\ InitFrom(Session(Start("CLASSIC", "I", "O", <<>>)))
  /\ now = InputEpoch
  /\ calls = 0
  /\ fnArgs = NoArgs
  /\ fnResult = NoArgs

\* A step of the handler at time time, leaving handler h and element focus
\* focused, having invoked the callbacks in log.
Handled(op, key, time, h, focus, log) ==
  /\ time <= InputEpoch + MaxInputTime
  /\ inputHandler' = h
  /\ activeElement' = focus
  /\ invoked' = log
  /\ now' = time
  /\ lastCall' = [op |-> op, key |-> key]
  /\ UNCHANGED <<engineVars, calls, fnArgs, fnResult, eventListeners, snapshot>>

On ==
  \E action \in CallbackActions :
     Handled("on", action, now, on(inputHandler, action), activeElement, <<>>)

Off ==
  \E action \in CallbackActions :
     Handled("off", action, now, off(inputHandler, action), activeElement, <<>>)

Focus ==
  \E element \in {"body", "input"} :
     Handled("focus", element, now, inputHandler, element, <<>>)

KeyDown ==
  \E key \in InputKeys, dt \in ClockSteps :
     Handled("keydown", key, now + dt,
             handleKeyDown(inputHandler, key, now + dt), activeElement,
             handleKeyDownCalls(inputHandler, key, now + dt))

KeyUp ==
  \E key \in InputKeys :
     Handled("keyup", key, now, handleKeyUp(inputHandler, key), activeElement, <<>>)

RepeatTimer ==
  \E key \in inputHandler.repeatIntervals, dt \in ClockSteps :
     Handled("timer", key, now + dt,
             repeatFired(inputHandler, key, now + dt), activeElement,
             repeatFiredCalls(inputHandler, key, now + dt))

NextInput == On \/ Off \/ Focus \/ KeyDown \/ KeyUp \/ RepeatTimer

SpecInput == InitInput /\ [][NextInput]_vars

\* C30: the InputHandler does not turn a keydown into a game action while
\* the keyboard focus is in a text input: with an input element focused,
\* pressing a key bound to an action never invokes the registered callback.
C30_NoActionWhileTyping ==
  [][ lastCall'.op = "keydown" /\ activeElement = "input" => invoked' = <<>> ]_vars

\* C31: after every completed lock sequence, and so in every state between
\* calls on the engine, the board contains no complete row: every row that
\* was fully occupied at lock time has been removed and the rows above it
\* shifted down, also when one lock completes two or more rows.
C31_NoCompleteRowLeft ==
  \A r \in DOMAIN board : ~isCompleteRow(board[r])


\* The events of the last call that report cleared lines.
LineClearedEvents(es) == {i \in DOMAIN es : es[i].type = "LINE_CLEARED"}

\* C32: the number of lines cleared by one lock is between 0 and 4: no
\* LINE_CLEARED event carries a count above 4, and the lines of the state never
\* grow by more than 4 in one call.
C32_AtMostFourLinesPerLock ==
  [][ calls' = calls + 1
        => /\ lines' <= lines + 4
           /\ \A i \in LineClearedEvents(events') :
                events'[i].data.count \in 1..4 ]_vars


\* C33: a lock sequence that passes its first step (it emits PIECE_LOCKED)
\* makes the previous next piece the current piece, with its type, at the
\* spawn position and in rotation 0, draws a new next piece, sets canHold, and
\* ends the game exactly when the new current piece collides with the board
\* left by the line clear.
C33_LockSpawnsNextPiece ==
  [][ calls' = calls + 1 /\ HasEvent(events', "PIECE_LOCKED")
        => /\ currentPiece' = nextPiece
           /\ currentPiece'.position = SPAWN_POSITION
           /\ currentPiece'.rotation = 0
           /\ \E i \in DOMAIN ALL_TETROMINO_TYPES :
                 nextPiece' = createTetromino(ALL_TETROMINO_TYPES[i])
           /\ canHold'
           /\ isGameOver'
                <=> checkCollision(board', currentPiece', 0, 0).hasCollision
     ]_vars

\* A lock after a hold has spawned a piece that may be held again.
C33_SpawnedAfterHold ==
  /\ calls >= 1
  /\ HasEvent(events, "PIECE_LOCKED")
  /\ holdPiece # NULL
  /\ canHold
  /\ ~isGameOver
  /\ currentPiece.position = SPAWN_POSITION


\* The piece the lock sequence of this step locks: the current piece where
\* it is, or at its ghost position when the call is hardDrop.
LockedPiece ==
  IF lastCall'.op = "hardDrop"
  THEN DroppedTo(findGhostPosition(board, currentPiece).y)
  ELSE currentPiece

\* The score (in half points) when the lock sequence of this step starts.
ScoreAtLock ==
  IF lastCall'.op = "hardDrop"
  THEN score + 4 * (findGhostPosition(board, currentPiece).y
                      - currentPiece.position.y)
  ELSE score

\* The events of the call from PIECE_LOCKED on.
LockEvents(es) ==
  SubSeq(es, CHOOSE i \in DOMAIN es : es[i].type = "PIECE_LOCKED", Len(es))

\* The place of an event type in the order of the lock sequence.
LockOrder(type) ==
  CASE type = "PIECE_LOCKED"  -> 1
    [] type = "LINE_CLEARED"  -> 2
    [] type = "LEVEL_UP"      -> 3
    [] type = "SCORE_UPDATED" -> 4
    [] type = "GAME_OVER"     -> 5
    [] OTHER                  -> 0

\* What C34 asks of the events es of a lock that found n complete rows.
LockEventsInOrder(es, n) ==
  /\ es[1].type = "PIECE_LOCKED"
  /\ \A i \in DOMAIN es : LockOrder(es[i].type) > 0
  /\ \A i, j \in DOMAIN es : i < j => LockOrder(es[i].type) < LockOrder(es[j].type)
  /\ HasEvent(es, "LINE_CLEARED") <=> n > 0
  /\ HasEvent(es, "SCORE_UPDATED") <=> n > 0
  /\ HasEvent(es, "LEVEL_UP") => n > 0
  /\ HasEvent(es, "GAME_OVER")
       <=> checkCollision(board', currentPiece', 0, 0).hasCollision
  /\ \A i \in DOMAIN es :
       es[i].type = "LINE_CLEARED"
         => /\ es[i].data.count = n
            /\ es[i].data.bonus = 2 * calculateLineScore(n, level)
            /\ es[i].data.bonus = score' - ScoreAtLock

\* C34: within one lock sequence the events are emitted in the order
\* PIECE_LOCKED, LINE_CLEARED (only if at least one line was cleared),
\* LEVEL_UP, SCORE_UPDATED, GAME_OVER (only on spawn collision), and the
\* LINE_CLEARED payload has count = the number of complete rows found and
\* bonus = the line score of count at the level before the clear = the score
\* increase of the clear.
C34_LockEventsInOrder ==
  [][ calls' = calls + 1 /\ HasEvent(events', "PIECE_LOCKED")
        => \A locked \in {lockPiece(board, LockedPiece)} :
             \A n \in {Len(findCompleteLines(locked))} :
               LockEventsInOrder(LockEvents(events'), n)
     ]_vars

\* A lock has cleared lines and raised the level.
C34_ClearedWithLevelUp ==
  /\ calls >= 1
  /\ HasEvent(events, "PIECE_LOCKED")
  /\ HasEvent(events, "LINE_CLEARED")
  /\ HasEvent(events, "LEVEL_UP")
  /\ HasEvent(events, "SCORE_UPDATED")


\* The cell is inside the walls and above the floor, and the board cell it
\* names, if it is on the board, is vacant.
LegalCell(cell) ==
  /\ cell.x >= 0 /\ cell.x < BOARD_COLS
  /\ cell.y < BOARD_ROWS
  /\ cell.y >= 0 => board[cell.y + 1][cell.x + 1] = VACANT_COLOR

\* C35: while the game is not over, the current piece is in a legal
\* position: none of its occupied cells is outside the left or right wall or
\* below the floor, and none overlaps a locked cell of the board; also after
\* hold(), which places a piece at the spawn position.
C35_CurrentPieceLegal ==
  ~isGameOver /\ currentPiece # NULL
    => \A k \in DOMAIN getTetrominoOccupiedCells(currentPiece) :
          LegalCell(getTetrominoOccupiedCells(currentPiece)[k])


\* The number of filled cells of board b.
FilledCount(b) ==
  Cardinality({rc \in (1..BOARD_ROWS) \X (1..BOARD_COLS) :
                 b[rc[1]][rc[2]] # VACANT_COLOR})

\* The cells of piece p are four different cells of the board, all vacant.
FourVacantCells(cells) ==
  /\ Cardinality({cells[k] : k \in DOMAIN cells}) = 4
  /\ \A k \in DOMAIN cells :
       /\ cells[k].y >= 0
       /\ isValidPosition(cells[k])
       /\ board[cells[k].y + 1][cells[k].x + 1] = VACANT_COLOR

\* C36: every lock that emits PIECE_LOCKED writes exactly 4 cells, all on the
\* board (y >= 0) and all vacant immediately before the lock, so that before
\* the line clear the number of filled cells grows by exactly 4.
C36_LockWritesFourVacantCells ==
  [][ calls' = calls + 1 /\ HasEvent(events', "PIECE_LOCKED")
        => \A p \in {LockedPiece} :
             /\ FourVacantCells(getTetrominoOccupiedCells(p))
             /\ FilledCount(lockPiece(board, p)) = FilledCount(board) + 4
             /\ lines' = lines => FilledCount(board') = FilledCount(board) + 4
     ]_vars

\* A piece held in over the stack and kicked aside has been locked beside it.
C36_LockedAfterHoldOverStack ==
  /\ calls >= 1
  /\ lastCall.op = "hardDrop"
  /\ HasEvent(events, "PIECE_LOCKED")
  /\ holdPiece # NULL
  /\ board[1][5] # VACANT_COLOR
  /\ ~isGameOver


\* The GAME_OVER events among evs carry the score, lines and level given.
GameOverPayload(evs, atScore, atLines, atLevel) ==
  \A i \in DOMAIN evs :
     evs[i].type = "GAME_OVER"
       => /\ evs[i].data.score = atScore
          /\ evs[i].data.lines = atLines
          /\ evs[i].data.level = atLevel

\* C37: GAME_OVER is emitted exactly once per session, by the call that
\* takes the engine into GameOver (a lock above the board, a spawn collision
\* or a timeout), and by no other call until the next restart, also when a
\* timeout and a gravity step fall in the same update and when further
\* actions are attempted; its payload score, lines and level are the state's
\* values at that moment.
C37_GameOverEmittedOnce ==
  [][ calls' = calls + 1
        => /\ CountEvents(events', "GAME_OVER")
                = IF ~isGameOver /\ isGameOver' THEN 1 ELSE 0
           /\ GameOverPayload(events', score', lines', level')
           /\ isGameOver /\ lastCall'.op # "restart" => isGameOver'
     ]_vars

\* A timed game has ended in an update in which a gravity step was due, and
\* a soft drop has been attempted afterwards.
C37_DropAfterTimeout ==
  /\ calls = 2
  /\ lastCall.op = "moveDown"
  /\ gameMode = "ULTRA"
  /\ isGameOver
  /\ elapsedTime >= timeLimitTicks("ULTRA")
  /\ lastDropTime = now
  /\ now > 0
  /\ events = <<>>


\* C38: Paused and GameOver exclude each other and the two pause flags
\* agree: isPaused and isGameOver are never both true, and the private
\* isPaused field equals the isPaused field of the state getState() returns
\* (statePaused).
C38_PausedExcludesGameOver ==
  /\ ~(isPaused /\ isGameOver)
  /\ ~(statePaused /\ isGameOver)
  /\ isPaused = statePaused

\* pause() has been called after the game ended.
C38_PauseAfterGameOver ==
  /\ calls >= 1
  /\ lastCall.op \in {"pause", "togglePause"}
  /\ isGameOver
  /\ ~isPaused
  /\ events = <<>>


\* C39: in Timed mode an elapsed time at or past the 120 s limit implies
\* isGameOver, so a timed session that is running or paused has
\* getRemainingTime() > 0; getRemainingTime() is never negative; and the
\* elapsed time only advances in update() calls made while running.
C39_TimedGameEndsAtLimit ==
  /\ [](gameMode = "ULTRA"
          => /\ elapsedTime >= timeLimitTicks("ULTRA") => isGameOver
             /\ ~isGameOver => getRemainingTime(gameMode, elapsedTime) > 0
             /\ getRemainingTime(gameMode, elapsedTime) >= 0)
  /\ [][ elapsedTime' > elapsedTime
           => /\ lastCall'.op = "update"
              /\ ~isGameOver /\ ~isPaused
              /\ elapsedTime' = elapsedTime + lastCall'.deltaTime * TICKS_PER_MS
        ]_vars

\* A timed game has run past its limit and a further update has left the
\* elapsed time as it was.
C39_UpdateAfterTimeUp ==
  /\ calls = 2
  /\ lastCall.op = "update"
  /\ gameMode = "ULTRA"
  /\ isGameOver
  /\ elapsedTime > timeLimitTicks("ULTRA")
  /\ getRemainingTime(gameMode, elapsedTime) = 0
  /\ events = <<>>


(***************************************************************************)
(* Soft drops: moveDown is called again and again on a running engine,     *)
(* with no other call on the engine in between, until a call runs the lock *)
(* sequence; the ghost position may be asked for between the calls.  calls *)
(* counts the moveDown calls made.                                         *)
(***************************************************************************)
\* The moveDown calls after which the run is given up.
MaxDrops == BOARD_ROWS + 3

NoLock == [fn |-> "lockCurrentPiece", ran |-> FALSE]

InitSoftDrop ==
  /\ \E s \in Sessions : ~s.e.isGameOver /\ ~s.e.isPaused /\ InitFrom(s)
  /\ now = 0
  /\ calls = 0
  /\ fnArgs = NoArgs
  /\ fnResult = NoLock

\* moveDown(), lines 525-540: the call runs the lock sequence when the
\* piece cannot move down.
SoftDrop ==
  /\ ~fnResult.ran
  /\ calls < MaxDrops
  /\ \E d \in DrawTypes :
        SetEngine(Do(Engine, Call("moveDown", 0, "undefined", <<d, d>>, now)))
  /\ lastCall' = [op |-> "moveDown", deltaTime |-> 0, mode |-> "undefined"]
  /\ calls' = calls + 1
  /\ fnResult' = [fn |-> "lockCurrentPiece",
                  ran |-> ~blocked(Engine) /\ ~canMoveDown(board, currentPiece)]
  /\ invoked' = deliveries(events', eventListeners, 1)
  /\ snapshot' = afterCall(snapshot, "moveDown", holdPiece')
  /\ UNCHANGED <<now, fnArgs, eventListeners, inputHandler, activeElement>>

\* findGhostPosition(board, currentPiece) evaluated between two calls.
GhostAsked ==
  /\ ~fnResult.ran
  /\ fnArgs' = [fn |-> "findGhostPosition", tetromino |-> currentPiece,
                result |-> findGhostPosition(board, currentPiece)]
  /\ UNCHANGED <<engineVars, lastCall, now, calls, fnResult, clientVars>>

NextSoftDrop == SoftDrop \/ GhostAsked

\* A step of the run is a moveDown call iff it counts one: the call can be
\* made as long as no lock sequence has run.
MoveDownCalled == ~fnResult.ran /\ calls < MaxDrops /\ calls' = calls + 1

\* The caller goes on calling moveDown.
SpecSoftDrop == InitSoftDrop /\ [][NextSoftDrop]_vars /\ WF_calls(MoveDownCalled)

\* C40: a piece always locks eventually: from any running state a run of
\* consecutive moveDown() calls reaches a lock sequence after at most
\* BOARD_ROWS + 2 calls; and findGhostPosition terminates, after at most
\* BOARD_ROWS + 1 steps down from the piece's row.
C40_PieceLocksEventually ==
  /\ [](calls >= BOARD_ROWS + 2 => fnResult.ran)
  /\ [](fnArgs.fn = "findGhostPosition"
          => fnArgs.result.y - fnArgs.tetromino.position.y \in 0..(BOARD_ROWS + 1))
  /\ <>fnResult.ran

\* A piece soft-dropped from the spawn position to the floor of an empty
\* column has locked on the call after its twentieth step down.
C40_LockedFromSpawnToFloor ==
  /\ fnResult.ran
  /\ calls = BOARD_ROWS + 1
  /\ HasEvent(events, "PIECE_LOCKED")

====
